---- MODULE Spec2Model ----
(***************************************************************************)
(* Model of python-soft-skill-enhancer: the word-overlap similarity        *)
(* scorer and the pronunciation feedback tiers (speech.py), the session    *)
(* aggregator, the lesson generator and the lesson renderer (tutor.py),    *)
(* the grammar corrector (grammar.py), text cleaning (utils.py) and the    *)
(* menu loop that drives them (main.py).                                   *)
(*                                                                         *)
(* Text is a sequence of one-character strings.  Percentages are integers  *)
(* in hundredths of a percent (Centi), so 75.0 is 7500 and 33.33 is 3333.  *)
(***************************************************************************)
EXTENDS Integers, Sequences, FiniteSets, TLC

VARIABLES
    call,          \* a direct call of a library function: arguments and return value
    menu,          \* the menu the application prompts at
    running,       \* SoftSkillEnhancerApp.running
    exit_status,   \* the exit status of the process, None while it runs
    session_data,  \* SoftSkillEnhancerApp.session_data
    handler,       \* the handler the last menu choice dispatched to
    output,        \* what that handler printed last
    remote         \* the remote operations that handler invoked, in order

appvars == <<menu, running, exit_status, session_data, handler, output, remote>>

vars == <<call, menu, running, exit_status, session_data, handler, output, remote>>

(***************************************************************************)
(* Bounds                                                                  *)
(***************************************************************************)
MaxLen == 5
MaxRaw == 3
MaxOver == 5
MaxSessions == 4
MaxErrors == 3
MaxRecords == 2

LongSession == 2001

(***************************************************************************)
(* Python str primitives                                                   *)
(***************************************************************************)
Str(chars, n) == UNION {[1..k -> chars] : k \in 0..n}

Whitespace == {" ", "\n", "\r"}

Lowercase == <<"a", "b", "c", "d", "e", "f", "g", "h", "i", "j", "k", "l", "m",
               "n", "o", "p", "q", "r", "s", "t", "u", "v", "w", "x", "y", "z">>

Uppercase == <<"A", "B", "C", "D", "E", "F", "G", "H", "I", "J", "K", "L", "M",
               "N", "O", "P", "Q", "R", "S", "T", "U", "V", "W", "X", "Y", "Z">>

ToLower ==
    [c \in {Uppercase[i] : i \in DOMAIN Uppercase} |->
        Lowercase[CHOOSE i \in DOMAIN Uppercase : Uppercase[i] = c]]

ToUpper ==
    [c \in {Lowercase[i] : i \in DOMAIN Lowercase} |->
        Uppercase[CHOOSE i \in DOMAIN Lowercase : Lowercase[i] = c]]

lower(s) == [i \in 1..Len(s) |-> IF s[i] \in DOMAIN ToLower THEN ToLower[s[i]] ELSE s[i]]

\* str.title(): a letter is upper-cased after a character that is no letter,
\* lower-cased after a letter
RECURSIVE TitleFrom(_, _)
TitleFrom(s, after_letter) ==
    IF s = <<>> THEN <<>>
    ELSE LET c == Head(s)
             letter == c \in DOMAIN ToLower \/ c \in DOMAIN ToUpper
         IN  <<IF c \in DOMAIN ToLower /\ after_letter THEN ToLower[c]
               ELSE IF c \in DOMAIN ToUpper /\ ~after_letter THEN ToUpper[c]
               ELSE c>>
             \o TitleFrom(Tail(s), letter)

title(s) == TitleFrom(s, FALSE)

\* str.join()
RECURSIVE join(_, _)
join(parts, sep) ==
    IF parts = <<>> THEN <<>>
    ELSE IF Len(parts) = 1 THEN Head(parts)
    ELSE Head(parts) \o sep \o join(Tail(parts), sep)

RECURSIVE lstrip(_)
lstrip(s) ==
    IF s # <<>> /\ Head(s) \in Whitespace THEN lstrip(Tail(s)) ELSE s

RECURSIVE rstrip(_)
rstrip(s) ==
    IF s # <<>> /\ s[Len(s)] \in Whitespace
    THEN rstrip(SubSeq(s, 1, Len(s) - 1))
    ELSE s

strip(s) == rstrip(lstrip(s))

RECURSIVE replace(_, _, _)
replace(s, old, new) ==
    IF s = <<>> THEN <<>>
    ELSE (IF Head(s) = old THEN new ELSE <<Head(s)>>) \o replace(Tail(s), old, new)

RECURSIVE SplitAcc(_, _, _)
SplitAcc(s, cur, acc) ==
    IF s = <<>>
    THEN (IF cur = <<>> THEN acc ELSE Append(acc, cur))
    ELSE IF Head(s) \in Whitespace
         THEN SplitAcc(Tail(s), <<>>, IF cur = <<>> THEN acc ELSE Append(acc, cur))
         ELSE SplitAcc(Tail(s), Append(cur, Head(s)), acc)

split(s) == SplitAcc(s, <<>>, <<>>)

RECURSIVE count(_, _)
count(s, c) ==
    IF s = <<>> THEN 0
    ELSE (IF Head(s) = c THEN 1 ELSE 0) + count(Tail(s), c)

\* only blanks are stripped, as by strip(' ')
clean_text_blanks(text) ==
    LET kept == {i \in 1..Len(text) : text[i] # " "}
        stripped == IF kept = {} THEN <<>>
                    ELSE SubSeq(text,
                                CHOOSE i \in kept : \A j \in kept : i <= j,
                                CHOOSE i \in kept : \A j \in kept : i >= j)
    IN  replace(replace(stripped, "\n", <<" ">>), "\r", <<>>)

clean_text(text) == replace(replace(strip(text), "\n", <<" ">>), "\r", <<>>)

(***************************************************************************)
(* Python numbers                                                          *)
(***************************************************************************)
Centi == 100

\* Optional values: None is the empty tuple, a present value x is <<x>>
None == <<>>
Some(x) == <<x>>

Ret(v) == [raised |-> FALSE, value |-> v]
Raise == [raised |-> TRUE, value |-> 0]

\* round(): nearest integer to n/d, ties to even (n >= 0, d > 0)
round(n, d) ==
    LET q == n \div d
        r == n % d
    IN  IF 2 * r < d THEN q
        ELSE IF 2 * r > d THEN q + 1
        ELSE IF q % 2 = 0 THEN q ELSE q + 1

(***************************************************************************)
(* speech.py: SpeechAnalyzer._calculate_similarity                         *)
(***************************************************************************)
\* Mutant: positional matching (word i of expected against word i of transcribed)
CountMatchesPositional(expected_words, transcribed_words) ==
    Cardinality({i \in 1..Len(expected_words) :
                    /\ i <= Len(transcribed_words)
                    /\ transcribed_words[i] = expected_words[i]})

\* Mutant: precision-style count (transcribed words found in expected)
CountMatchesSwapped(expected_words, transcribed_words) ==
    Cardinality({j \in 1..Len(transcribed_words) :
                    \E i \in 1..Len(expected_words) :
                        expected_words[i] = transcribed_words[j]})

RECURSIVE CountMatches(_, _)
CountMatches(expected_words, transcribed_words) ==
    IF expected_words = <<>> THEN 0
    ELSE (IF \E j \in 1..Len(transcribed_words) :
                 transcribed_words[j] = Head(expected_words)
          THEN 1 ELSE 0)
         + CountMatches(Tail(expected_words), transcribed_words)

\* (matches / len(expected_words)) * 100 rounded to 2 decimals; the division
\* raises ZeroDivisionError on an empty word list
Percentage(matches, n) ==
    IF n = 0 THEN Raise ELSE Ret(round(matches * 100 * Centi, n))

\* Mutant: the empty-word-list guard of line 116 is missing
_calculate_similarity_unguarded(expected, transcribed) ==
    IF expected = <<>> \/ transcribed = <<>> THEN Ret(0)
    ELSE LET expected_words == split(expected)
             transcribed_words == split(transcribed)
         IN  Percentage(CountMatches(expected_words, transcribed_words),
                        Len(expected_words))

_calculate_similarity(expected, transcribed) ==
    IF expected = <<>> \/ transcribed = <<>> THEN Ret(0)
    ELSE LET expected_words == split(expected)
             transcribed_words == split(transcribed)
         IN  IF expected_words = <<>> THEN Ret(0)
             ELSE Percentage(CountMatches(expected_words, transcribed_words),
                             Len(expected_words))

(***************************************************************************)
(* speech.py: the feedback composer                                        *)
(***************************************************************************)
_generate_pronunciation_feedback(expected, transcribed, score) ==
    IF score >= 90 * Centi
    THEN "Excellent pronunciation! Your speech is very clear and accurate."
    ELSE IF score >= 75 * Centi
    THEN "Good pronunciation! Minor improvements could enhance clarity."
    ELSE IF score >= 50 * Centi
    THEN "Fair pronunciation. Focus on clearer articulation of words."
    ELSE "Pronunciation needs improvement. Practice speaking slowly and clearly."

\* Mutant: the top tier of the suggestions starts above 90
_generate_pronunciation_suggestions_gt(score) ==
    IF score > 90 * Centi
    THEN <<"Keep up the excellent work!", "Try more challenging texts">>
    ELSE IF score >= 75 * Centi
    THEN <<"Focus on word endings", "Practice with tongue twisters">>
    ELSE IF score >= 50 * Centi
    THEN <<"Speak more slowly", "Practice individual word pronunciation",
           "Record in a quiet environment">>
    ELSE <<"Practice basic pronunciation exercises",
           "Speak more slowly and clearly",
           "Focus on vowel sounds",
           "Use a mirror to watch mouth movements">>

_generate_pronunciation_suggestions(score) ==
    IF score >= 90 * Centi
    THEN <<"Keep up the excellent work!", "Try more challenging texts">>
    ELSE IF score >= 75 * Centi
    THEN <<"Focus on word endings", "Practice with tongue twisters">>
    ELSE IF score >= 50 * Centi
    THEN <<"Speak more slowly", "Practice individual word pronunciation",
           "Record in a quiet environment">>
    ELSE <<"Practice basic pronunciation exercises",
           "Speak more slowly and clearly",
           "Focus on vowel sounds",
           "Use a mirror to watch mouth movements">>

(***************************************************************************)
(* speech.py: SpeechAnalyzer.analyze_speech and analyze_pronunciation      *)
(* audio is the outcome of reading and recognising the file: ok = FALSE    *)
(* when the file is missing or the recogniser fails, otherwise text is     *)
(* the recogniser's transcript.                                            *)
(***************************************************************************)
analyze_speech(audio) ==
    IF audio.ok THEN Ret(clean_text(audio.text)) ELSE Raise

NoExpectedResult(transcribed) ==
    [transcribed_text |-> transcribed,
     expected_text |-> None,
     pronunciation_score |-> None,
     analysis |-> "Transcription completed. Provide expected text for pronunciation analysis.",
     suggestions |-> <<"Record again with clearer pronunciation", "Speak at a moderate pace">>]

\* Mutant: a failed analysis carries no score
AnalysisFailedNull(expected_text) ==
    [transcribed_text |-> <<>>,
     expected_text |-> expected_text,
     pronunciation_score |-> None,
     analysis |-> "Analysis failed",
     suggestions |-> <<"Check audio file format and quality", "Ensure clear speech">>]

AnalysisFailed(expected_text) ==
    [transcribed_text |-> <<>>,
     expected_text |-> expected_text,
     pronunciation_score |-> Some(0),
     analysis |-> "Analysis failed",
     suggestions |-> <<"Check audio file format and quality", "Ensure clear speech">>]

analyze_pronunciation(audio, expected_text) ==
    LET transcribed == analyze_speech(audio)
    IN  IF transcribed.raised THEN AnalysisFailed(expected_text)
        ELSE IF expected_text = None \/ expected_text = Some(<<>>)
        THEN NoExpectedResult(transcribed.value)
        ELSE LET expected_clean == clean_text(lower(expected_text[1]))
                 transcribed_clean == lower(transcribed.value)
                 similarity_score == _calculate_similarity(expected_clean, transcribed_clean)
             IN  IF similarity_score.raised THEN AnalysisFailed(expected_text)
                 ELSE [transcribed_text |-> transcribed.value,
                       expected_text |-> expected_text,
                       pronunciation_score |-> Some(similarity_score.value),
                       analysis |-> _generate_pronunciation_feedback(
                                        expected_clean, transcribed_clean,
                                        similarity_score.value),
                       suggestions |-> _generate_pronunciation_suggestions(
                                        similarity_score.value)]

(***************************************************************************)
(* Specification of the speech module: one call of the similarity scorer,  *)
(* of analyze_pronunciation or of the feedback composer, on inputs drawn   *)
(* in the initial state.                                                   *)
(***************************************************************************)
SimChars == {"a", "b", " "}
RawChars == {"a", "b", "A", " ", "\n"}

Pending == [raised |-> FALSE, value |-> -1]

\* the application is not started while a library function is called directly
AppOff ==
    /\ menu = "off"
    /\ running = FALSE
    /\ exit_status = None
    /\ session_data = <<>>
    /\ handler = "none"
    /\ output = "none"
    /\ remote = <<>>

InitSimilarity ==
    \E expected \in Str(SimChars, MaxLen), transcribed \in Str(SimChars, MaxLen) :
        call = [fn |-> "_calculate_similarity",
                pc |-> "call",
                expected |-> expected,
                transcribed |-> transcribed,
                ret |-> Pending]

InitPronunciation ==
    \E text \in Str(RawChars, MaxRaw), ok \in BOOLEAN,
       expected_text \in {None} \cup {Some(e) : e \in Str(RawChars, MaxRaw)} :
        /\ (~ok => text = <<>>)
        /\ call = [fn |-> "analyze_pronunciation",
                   pc |-> "call",
                   audio |-> [ok |-> ok, text |-> text],
                   expected_text |-> expected_text,
                   ret |-> Pending]

InitFeedback ==
    \E score \in (0 - MaxOver * Centi) .. ((100 + MaxOver) * Centi) :
        call = [fn |-> "_generate_pronunciation_feedback",
                pc |-> "call",
                score |-> score,
                ret |-> Pending]

InitSpeech == (InitSimilarity \/ InitPronunciation \/ InitFeedback) /\ AppOff

CalculateSimilarity ==
    /\ call.fn = "_calculate_similarity"
    /\ call.pc = "call"
    /\ call' = [call EXCEPT !.pc = "return",
                            !.ret = _calculate_similarity(call.expected, call.transcribed)]
    /\ UNCHANGED appvars

AnalyzePronunciation ==
    /\ call.fn = "analyze_pronunciation"
    /\ call.pc = "call"
    /\ call' = [call EXCEPT !.pc = "return",
                            !.ret = analyze_pronunciation(call.audio, call.expected_text)]
    /\ UNCHANGED appvars

\* the two composer functions applied to one score, as analyze_pronunciation does
GeneratePronunciationFeedback ==
    /\ call.fn = "_generate_pronunciation_feedback"
    /\ call.pc = "call"
    /\ call' = [call EXCEPT
                  !.pc = "return",
                  !.ret = [analysis |-> _generate_pronunciation_feedback(<<>>, <<>>, call.score),
                           suggestions |-> _generate_pronunciation_suggestions(call.score)]]
    /\ UNCHANGED appvars

NextSpeech == CalculateSimilarity \/ AnalyzePronunciation \/ GeneratePronunciationFeedback

SpecSpeech == InitSpeech /\ [][NextSpeech]_vars

(***************************************************************************)
(* Properties of the speech module (checked under SpecSpeech)              *)
(***************************************************************************)
Returned(fn) == call.fn = fn /\ call.pc = "return"

Words(s) == {split(s)[i] : i \in 1..Len(split(s))}

\* C1: when both phrases contain a word, the similarity is matches / number of
\* expected words * 100 rounded to two decimals (the nearest hundredth, a tie
\* going to the even one), where matches is the number of positions of the
\* expected word sequence whose word occurs anywhere in the observed words.
C1_SimilarityIsRecall ==
    (/\ Returned("_calculate_similarity")
     /\ split(call.expected) # <<>>
     /\ split(call.transcribed) # <<>>)
    => LET ew == split(call.expected)
           n == Len(ew)
           matches == Cardinality({i \in 1..n : ew[i] \in Words(call.transcribed)})
           v == call.ret.value
           err == v * n - matches * 100 * Centi
       IN  /\ ~call.ret.raised
           /\ 2 * err <= n
           /\ 2 * err >= 0 - n
           /\ (2 * err = n \/ 2 * err = 0 - n) => v % 2 = 0

\* a repeated expected word, present once in the observed phrase, counted twice
C1_Witness ==
    /\ Returned("_calculate_similarity")
    /\ call.expected = <<"a", " ", "a", " ", "b">>
    /\ call.transcribed = <<"a">>
    /\ call.ret = Ret(6667)

\* C2: every similarity score, and every non-null pronunciation_score, lies
\* in [0, 100].
C2_ScoreInRange ==
    /\ Returned("_calculate_similarity")
       => /\ ~call.ret.raised
          /\ call.ret.value >= 0
          /\ call.ret.value <= 100 * Centi
    /\ (Returned("analyze_pronunciation") /\ call.ret.pronunciation_score # None)
       => /\ call.ret.pronunciation_score[1] >= 0
          /\ call.ret.pronunciation_score[1] <= 100 * Centi

\* the observed phrase is a superset of the expected one, with a duplicate
C2_Witness ==
    /\ Returned("_calculate_similarity")
    /\ call.expected = <<"a", " ", "b">>
    /\ call.transcribed = <<"a", " ", "b", " ", "a">>
    /\ call.ret = Ret(100 * Centi)

\* C3 as stated: the pronunciation score is non-null exactly when the expected
\* text is given and non-empty, the transcription succeeded and the
\* transcript is non-empty.
C3_ScoreDefinedOnlyWhenBothNonEmpty ==
    Returned("analyze_pronunciation")
    => (call.ret.pronunciation_score # None
        <=> /\ call.expected_text # None
            /\ call.expected_text # Some(<<>>)
            /\ call.audio.ok
            /\ call.ret.transcribed_text # <<>>)

\* C3 amended: the pronunciation score is null exactly when the transcription
\* succeeded and no (or an empty) expected text was given; after a failed
\* transcription, and for an empty transcript with an expected text, it is 0.
C3_ScoreNullIffNoExpected ==
    Returned("analyze_pronunciation")
    => /\ call.ret.pronunciation_score = None
          <=> (call.audio.ok /\ call.expected_text \in {None, Some(<<>>)})
       /\ (~call.audio.ok \/ (call.expected_text \notin {None, Some(<<>>)}
                              /\ call.ret.transcribed_text = <<>>))
          => call.ret.pronunciation_score = Some(0)

\* a failed transcription with an expected text: the score is 0, not null
C3_Witness ==
    /\ Returned("analyze_pronunciation")
    /\ ~call.audio.ok
    /\ call.expected_text = Some(<<"a">>)
    /\ call.ret.pronunciation_score = Some(0)

\* C4: the similarity is 0.0, and nothing is raised, whenever the expected
\* word sequence is empty or the observed word sequence is empty.
C4_EmptyWordsScoreZero ==
    (/\ Returned("_calculate_similarity")
     /\ (split(call.expected) = <<>> \/ split(call.transcribed) = <<>>))
    => call.ret = Ret(0)

\* a blank, non-empty expected phrase against a phrase with a word
C4_Witness ==
    /\ Returned("_calculate_similarity")
    /\ call.expected = <<" ">>
    /\ call.transcribed = <<"a">>
    /\ call.ret = Ret(0)

FeedbackTier(analysis) ==
    CASE analysis = "Excellent pronunciation! Your speech is very clear and accurate." -> 1
      [] analysis = "Good pronunciation! Minor improvements could enhance clarity." -> 2
      [] analysis = "Fair pronunciation. Focus on clearer articulation of words." -> 3
      [] analysis = "Pronunciation needs improvement. Practice speaking slowly and clearly." -> 4

SuggestionsTier(suggestions) ==
    CASE suggestions[1] = "Keep up the excellent work!" -> 1
      [] suggestions[1] = "Focus on word endings" -> 2
      [] suggestions[1] = "Speak more slowly" -> 3
      [] suggestions[1] = "Practice basic pronunciation exercises" -> 4

\* C5: every score, negative and above 100 included, selects exactly one of
\* four tiers (>= 90, >= 75, >= 50, else; a boundary score belongs to the
\* higher tier), and the feedback and the suggestions are of the same tier.
C5_ComposerTiers ==
    Returned("_generate_pronunciation_feedback")
    => LET s == call.score
           ft == FeedbackTier(call.ret.analysis)
           st == SuggestionsTier(call.ret.suggestions)
       IN  /\ ft = st
           /\ ft = 1 <=> s >= 90 * Centi
           /\ ft = 2 <=> (s >= 75 * Centi /\ s < 90 * Centi)
           /\ ft = 3 <=> (s >= 50 * Centi /\ s < 75 * Centi)
           /\ ft = 4 <=> s < 50 * Centi

\* the boundary score 90 is of the top tier in both functions
C5_Witness ==
    /\ Returned("_generate_pronunciation_feedback")
    /\ call.score = 90 * Centi
    /\ FeedbackTier(call.ret.analysis) = 1
    /\ SuggestionsTier(call.ret.suggestions) = 1

(***************************************************************************)
(* tutor.py: the session aggregator                                        *)
(* A number that is not rounded is the exact fraction num / den.           *)
(***************************************************************************)
Rat(n, d) == [num |-> n, den |-> d]

RatLess(r, k) == r.num < k * r.den

\* round(x, 1), in hundredths
round1(r) == round(r.num * 10, r.den) * 10

\* Mutant: 'grammar' is reported only when no other category was found
_identify_error_types_first_only(original, corrected) ==
    IF count(original, ",") # count(corrected, ",") THEN <<"punctuation">>
    ELSE IF Len(split(original)) # Len(split(corrected)) THEN <<"word_choice">>
    ELSE IF lower(original) # lower(corrected) THEN <<"grammar">>
    ELSE <<>>

_identify_error_types(original, corrected) ==
    (IF count(original, ",") # count(corrected, ",") THEN <<"punctuation">> ELSE <<>>)
    \o (IF Len(split(original)) # Len(split(corrected)) THEN <<"word_choice">> ELSE <<>>)
    \o (IF lower(original) # lower(corrected) THEN <<"grammar">> ELSE <<>>)

\* Mutant: the texts are compared as they are, without lower-casing
DiffersExact(response) == response.original # response.corrected

\* the condition of the loop of assess_progress
Differs(response) == lower(response.original) # lower(response.corrected)

\* the loop of assess_progress: improvements and common_errors
RECURSIVE Tally(_)
Tally(user_responses) ==
    IF user_responses = <<>> THEN [improvements |-> 0, common_errors |-> <<>>]
    ELSE LET response == Head(user_responses)
             rest == Tally(Tail(user_responses))
         IN  IF Differs(response)
             THEN [improvements |-> rest.improvements + 1,
                   common_errors |-> _identify_error_types(response.original,
                                                           response.corrected)
                                     \o rest.common_errors]
             ELSE rest

\* Mutant: the lowest band includes its boundary (<= 50)
_generate_recommendations_le(progress_score, common_errors) ==
    (IF progress_score.num <= 50 * progress_score.den
     THEN <<"Focus on basic grammar rules",
            "Practice daily with simple exercises",
            "Read more to improve language intuition">>
     ELSE IF RatLess(progress_score, 80)
     THEN <<"Work on advanced grammar concepts",
            "Practice writing longer texts",
            "Focus on style and clarity">>
     ELSE <<"Maintain your excellent progress",
            "Challenge yourself with complex texts",
            "Help others learn">>)
    \o (IF \E i \in 1..Len(common_errors) : common_errors[i] = "punctuation"
        THEN <<"Review punctuation rules">> ELSE <<>>)
    \o (IF \E i \in 1..Len(common_errors) : common_errors[i] = "grammar"
        THEN <<"Study verb tenses and sentence structure">> ELSE <<>>)

_generate_recommendations(progress_score, common_errors) ==
    (IF RatLess(progress_score, 50)
     THEN <<"Focus on basic grammar rules",
            "Practice daily with simple exercises",
            "Read more to improve language intuition">>
     ELSE IF RatLess(progress_score, 80)
     THEN <<"Work on advanced grammar concepts",
            "Practice writing longer texts",
            "Focus on style and clarity">>
     ELSE <<"Maintain your excellent progress",
            "Challenge yourself with complex texts",
            "Help others learn">>)
    \o (IF \E i \in 1..Len(common_errors) : common_errors[i] = "punctuation"
        THEN <<"Review punctuation rules">> ELSE <<>>)
    \o (IF \E i \in 1..Len(common_errors) : common_errors[i] = "grammar"
        THEN <<"Study verb tenses and sentence structure">> ELSE <<>>)

Categories == {"punctuation", "word_choice", "grammar"}

\* the orders in which a set of strings may be iterated
SetOrders == {o \in [1..3 -> Categories] : \A i, j \in 1..3 : i # j => o[i] # o[j]}

\* Mutant: the list is reported as collected, without set()
ListAsCollected(common_errors, set_order) == common_errors

\* list(set(common_errors)), iterated in the order set_order
RECURSIVE ListOfSet(_, _)
ListOfSet(common_errors, set_order) ==
    IF set_order = <<>> THEN <<>>
    ELSE (IF \E i \in 1..Len(common_errors) : common_errors[i] = Head(set_order)
          THEN <<Head(set_order)>> ELSE <<>>)
         \o ListOfSet(common_errors, Tail(set_order))

NoData ==
    [progress_score |-> 0,
     assessment |-> <<"No data available for assessment.">>,
     recommendations |-> <<"Start practicing with basic exercises">>]

AssessmentFailed ==
    [progress_score |-> 0,
     assessment |-> <<"Assessment failed">>,
     recommendations |-> <<"Continue practicing regularly", "Focus on basic grammar rules">>]

\* Mutant: the share of corrected sessions is reported as the progress
ProgressScoreInverted(improvements, total_sessions) ==
    IF total_sessions > 0 THEN Rat(improvements * 100, total_sessions) ELSE Rat(0, 1)

\* max(0, 100 - (improvements / total_sessions * 100)) if total_sessions > 0 else 0
ProgressScore(improvements, total_sessions) ==
    IF total_sessions > 0
    THEN LET score == Rat(100 * total_sessions - improvements * 100, total_sessions)
         IN  IF score.num < 0 THEN Rat(0, 1) ELSE score
    ELSE Rat(0, 1)

\* assess_progress after its loop: the score, the remote narrative and the
\* report.  client: the tutor has a remote client; chat: the outcome of
\* client.chat (ok = FALSE when it raises); the result is the report and the
\* number of remote calls made
assess_tallied(total_sessions, improvements, common_errors, client, chat, set_order) ==
    LET progress_score == ProgressScore(improvements, total_sessions)
        Report(assessment) ==
            [progress_score |-> round1(progress_score),
             total_sessions |-> total_sessions,
             improvement_sessions |-> improvements,
             assessment |-> assessment,
             common_errors |-> ListOfSet(common_errors, set_order),
             recommendations |-> _generate_recommendations(progress_score,
                                                           common_errors)]
    IN  IF ~client
        THEN [report |-> Report(<<"Based on", total_sessions, round1(progress_score)>>),
              chat_calls |-> 0]
        ELSE IF ~chat.ok
        THEN [report |-> AssessmentFailed, chat_calls |-> 1]
        ELSE [report |-> Report(strip(chat.text)), chat_calls |-> 1]

\* the try block of assess_progress: the loop over the records, then the rest
Assess(user_responses, client, chat, set_order) ==
    assess_tallied(Len(user_responses), Tally(user_responses).improvements,
                   Tally(user_responses).common_errors, client, chat, set_order)

\* Mutant: the empty-session guard of line 162 is missing
assess_progress_unguarded(user_responses, client, chat, set_order) ==
    Assess(user_responses, client, chat, set_order)

assess_progress(user_responses, client, chat, set_order) ==
    IF user_responses = <<>> THEN [report |-> NoData, chat_calls |-> 0]
    ELSE Assess(user_responses, client, chat, set_order)

(***************************************************************************)
(* Specification of the session aggregator: one call of assess_progress    *)
(* or of _generate_recommendations on inputs drawn in the initial state.   *)
(***************************************************************************)
\* one record of each kind: identical, differing in case only, and the four
\* combinations of error categories
SampleRecords ==
    {[original |-> <<"a">>, corrected |-> <<"a">>],
     [original |-> <<"A">>, corrected |-> <<"a">>],
     [original |-> <<"a">>, corrected |-> <<"b">>],
     [original |-> <<"a">>, corrected |-> <<"a", ",">>],
     [original |-> <<"a">>, corrected |-> <<"a", " ", "b">>],
     [original |-> <<"a", ",">>, corrected |-> <<"a", " ", "b">>]}

\* outcomes of client.chat: it raises, or it replies with a text
ChatFailed == [ok |-> FALSE, text |-> <<>>]

ChatOutcomes == {ChatFailed, [ok |-> TRUE, text |-> <<"n">>]}

InitAssess ==
    \E user_responses \in UNION {[1..n -> SampleRecords] : n \in 0..MaxSessions},
       client \in BOOLEAN, chat \in ChatOutcomes :
        /\ (~client => ~chat.ok)
        /\ call = [fn |-> "assess_progress",
                   pc |-> "call",
                   user_responses |-> user_responses,
                   client |-> client,
                   chat |-> chat,
                   ret |-> Pending]

InitRecommendations ==
    \E tenths \in 0..1000,
       common_errors \in UNION {[1..n -> Categories] : n \in 0..MaxErrors} :
        call = [fn |-> "_generate_recommendations",
                pc |-> "call",
                progress_score |-> Rat(tenths, 10),
                common_errors |-> common_errors,
                ret |-> Pending]

\* a long session as the loop of assess_progress leaves it: total_sessions
\* records of which none or one differs, with the categories of that one
InitAssessTallied ==
    \E total_sessions \in 1..LongSession, improvements \in 0..1,
       errors \in {<<"grammar">>, <<"punctuation", "grammar">>},
       client \in BOOLEAN, chat \in ChatOutcomes :
        /\ (~client => ~chat.ok)
        /\ (improvements = 0 => errors = <<"grammar">>)
        /\ call = [fn |-> "assess_tallied",
                   pc |-> "call",
                   total_sessions |-> total_sessions,
                   improvements |-> improvements,
                   common_errors |-> IF improvements = 0 THEN <<>> ELSE errors,
                   client |-> client,
                   chat |-> chat,
                   ret |-> Pending]

InitTutor == (InitAssess \/ InitAssessTallied \/ InitRecommendations) /\ AppOff

AssessProgress ==
    /\ call.fn = "assess_progress"
    /\ call.pc = "call"
    /\ \E set_order \in SetOrders :
         call' = [call EXCEPT !.pc = "return",
                              !.ret = assess_progress(call.user_responses, call.client,
                                                      call.chat, set_order)]
    /\ UNCHANGED appvars

GenerateRecommendations ==
    /\ call.fn = "_generate_recommendations"
    /\ call.pc = "call"
    /\ call' = [call EXCEPT !.pc = "return",
                            !.ret = _generate_recommendations(call.progress_score,
                                                              call.common_errors)]
    /\ UNCHANGED appvars

AssessTallied ==
    /\ call.fn = "assess_tallied"
    /\ call.pc = "call"
    /\ \E set_order \in SetOrders :
         call' = [call EXCEPT !.pc = "return",
                              !.ret = assess_tallied(call.total_sessions, call.improvements,
                                                     call.common_errors, call.client,
                                                     call.chat, set_order)]
    /\ UNCHANGED appvars

NextTutor == AssessProgress \/ AssessTallied \/ GenerateRecommendations

SpecTutor == InitTutor /\ [][NextTutor]_vars

(***************************************************************************)
(* Properties of the session aggregator (checked under SpecTutor)          *)
(***************************************************************************)
Improved(user_responses) ==
    {i \in 1..Len(user_responses) :
        lower(user_responses[i].original) # lower(user_responses[i].corrected)}

CaseOnly(response) ==
    /\ response.original # response.corrected
    /\ lower(response.original) = lower(response.corrected)

\* the report carries the session counts and the progress 100 - k/n*100,
\* rounded to the nearest tenth, of k improvements among n sessions
ReportsProgress(report, k, n) ==
    /\ {"total_sessions", "improvement_sessions"} \subseteq DOMAIN report
    /\ report.total_sessions = n
    /\ report.improvement_sessions = k
    /\ LET p == report.progress_score
           err == p * n - (n - k) * 100 * Centi
       IN  /\ p >= 0
           /\ p % 10 = 0
           /\ 2 * err <= 10 * n
           /\ 2 * err >= 0 - 10 * n
           /\ (2 * err = 10 * n \/ 2 * err = 0 - 10 * n) => (p \div 10) % 2 = 0

RemoteFailed == call.client /\ ~call.chat.ok

\* C6 as stated: for every non-empty session the report carries
\* total_sessions, improvement_sessions = the number of records that differ
\* after lower-casing, and progress_score = max(0, 100 - improvements/total*100)
\* rounded to one decimal.
C6_EveryReportCarriesProgress ==
    (Returned("assess_progress") /\ call.user_responses # <<>>)
    => ReportsProgress(call.ret.report,
                       Cardinality(Improved(call.user_responses)),
                       Len(call.user_responses))

\* C6 amended: the same, unless the remote assessment call raises; then the
\* report is the failure record, with progress_score 0 and no session counts.
C6_ReportCarriesProgressUnlessRemoteFails ==
    (Returned("assess_progress") /\ call.user_responses # <<>>)
    => IF RemoteFailed
       THEN /\ call.ret.report.progress_score = 0
            /\ DOMAIN call.ret.report = {"progress_score", "assessment", "recommendations"}
       ELSE ReportsProgress(call.ret.report,
                            Cardinality(Improved(call.user_responses)),
                            Len(call.user_responses))

\* three sessions, one of them corrected: 66.7
C6_Witness ==
    /\ Returned("assess_progress")
    /\ ~RemoteFailed
    /\ Len(call.user_responses) = 3
    /\ Cardinality(Improved(call.user_responses)) = 1
    /\ call.ret.report.progress_score = 6670
    /\ call.ret.report.improvement_sessions = 1

OneCaseOnlyOfFour(user_responses) ==
    /\ Len(user_responses) = 4
    /\ \E i \in 1..4 :
         /\ CaseOnly(user_responses[i])
         /\ \A j \in (1..4) \ {i} :
              user_responses[j].original = user_responses[j].corrected

\* C7 as stated: in a session of 4 records of which one differs in letter
\* case only and three are identical, improvements = 1 and progress = 75.0.
C7_CaseOnlyCountsAsImprovement ==
    (Returned("assess_progress") /\ OneCaseOnlyOfFour(call.user_responses))
    => /\ "improvement_sessions" \in DOMAIN call.ret.report
       /\ call.ret.report.improvement_sessions = 1
       /\ call.ret.report.progress_score = 75 * Centi

\* C7 amended: a record that differs in letter case only is not counted as
\* an improvement; in such a session of 4 the report has improvements = 0
\* and progress = 100.0 (the failure record when the remote call raises).
C7_CaseOnlyIsNotAnImprovement ==
    Returned("assess_progress")
    => /\ OneCaseOnlyOfFour(call.user_responses)
          => IF RemoteFailed
             THEN call.ret.report = AssessmentFailed
             ELSE /\ call.ret.report.improvement_sessions = 0
                  /\ call.ret.report.progress_score = 100 * Centi
       /\ "improvement_sessions" \in DOMAIN call.ret.report
          => call.ret.report.improvement_sessions
             <= Cardinality({i \in 1..Len(call.user_responses) :
                                ~CaseOnly(call.user_responses[i])})

C7_Witness ==
    /\ Returned("assess_progress")
    /\ OneCaseOnlyOfFour(call.user_responses)
    /\ ~call.client
    /\ call.ret.report.improvement_sessions = 0
    /\ call.ret.report.progress_score = 100 * Centi

\* common_errors is duplicate-free and holds a category exactly when some
\* record that differs after lower-casing shows it
ReportsErrors(report, user_responses) ==
    /\ "common_errors" \in DOMAIN report
    /\ LET e == report.common_errors
           D == Improved(user_responses)
       IN  /\ \A i, j \in 1..Len(e) : i # j => e[i] # e[j]
           /\ \A i \in 1..Len(e) : e[i] \in Categories
           /\ (\E i \in 1..Len(e) : e[i] = "punctuation")
              <=> \E d \in D : count(user_responses[d].original, ",")
                               # count(user_responses[d].corrected, ",")
           /\ (\E i \in 1..Len(e) : e[i] = "word_choice")
              <=> \E d \in D : Len(split(user_responses[d].original))
                               # Len(split(user_responses[d].corrected))
           /\ (\E i \in 1..Len(e) : e[i] = "grammar")
              <=> \E d \in D : lower(user_responses[d].original)
                               # lower(user_responses[d].corrected)

\* C9 as stated: the common_errors reported by assess_progress is the
\* duplicate-free set of the categories of the differing records.
C9_EveryReportCarriesErrorSet ==
    (Returned("assess_progress") /\ call.user_responses # <<>>)
    => ReportsErrors(call.ret.report, call.user_responses)

\* C9 amended: the same, unless the remote assessment call raises; then the
\* report has no common_errors at all.
C9_ReportCarriesErrorSetUnlessRemoteFails ==
    (Returned("assess_progress") /\ call.user_responses # <<>>)
    => IF RemoteFailed
       THEN "common_errors" \notin DOMAIN call.ret.report
       ELSE ReportsErrors(call.ret.report, call.user_responses)

\* two records with a punctuation error, one record without difference
C9_Witness ==
    /\ Returned("assess_progress")
    /\ ~RemoteFailed
    /\ Cardinality({i \in Improved(call.user_responses) :
                       count(call.user_responses[i].original, ",")
                       # count(call.user_responses[i].corrected, ",")}) = 2
    /\ Cardinality(Improved(call.user_responses)) < Len(call.user_responses)
    /\ Len(call.ret.report.common_errors) = 3

LowBand ==
    <<"Focus on basic grammar rules",
      "Practice daily with simple exercises",
      "Read more to improve language intuition">>

MiddleBand ==
    <<"Work on advanced grammar concepts",
      "Practice writing longer texts",
      "Focus on style and clarity">>

HighBand ==
    <<"Maintain your excellent progress",
      "Challenge yourself with complex texts",
      "Help others learn">>

\* C10: the recommendations are the three items of the band of the progress
\* (< 50, < 80, >= 80; 50 and 80 in the higher band), then 'Review
\* punctuation rules' iff punctuation is among the errors, then 'Study verb
\* tenses and sentence structure' iff grammar is, each at most once.
C10_RecommendationBands ==
    Returned("_generate_recommendations")
    => LET r == call.ret
           tenths == call.progress_score.num
           e == {call.common_errors[i] : i \in 1..Len(call.common_errors)}
           k == (IF "punctuation" \in e THEN 1 ELSE 0)
                + (IF "grammar" \in e THEN 1 ELSE 0)
       IN  /\ Len(r) = 3 + k
           /\ SubSeq(r, 1, 3) = (IF tenths < 500 THEN LowBand
                                 ELSE IF tenths < 800 THEN MiddleBand
                                 ELSE HighBand)
           /\ "punctuation" \in e => r[4] = "Review punctuation rules"
           /\ "grammar" \in e => r[3 + k] = "Study verb tenses and sentence structure"

\* progress exactly 50 with grammar collected twice
C10_Witness ==
    /\ Returned("_generate_recommendations")
    /\ call.progress_score = Rat(500, 10)
    /\ call.common_errors = <<"grammar", "punctuation", "grammar">>
    /\ call.ret = MiddleBand \o <<"Review punctuation rules",
                                  "Study verb tenses and sentence structure">>

(***************************************************************************)
(* grammar.py: GrammarCorrector.correct_grammar                            *)
(* chat is the outcome of the remote call; the result is the returned      *)
(* text (or the raised exception) and the number of remote calls made.     *)
(***************************************************************************)
\* a failure of the remote call is answered with the cleaned text
correct_grammar_lenient(text, chat) ==
    IF text = <<>> \/ strip(text) = <<>> THEN [ret |-> Ret(text), chat_calls |-> 0]
    ELSE LET stripped == strip(chat.text)
             corrected_text ==
                 IF stripped # <<>> /\ Head(stripped) = "\"" /\ stripped[Len(stripped)] = "\""
                 THEN SubSeq(stripped, 2, Len(stripped) - 1)
                 ELSE stripped
         IN  [ret |-> Ret(IF chat.ok /\ corrected_text # <<>> THEN corrected_text
                          ELSE clean_text(text)),
              chat_calls |-> 1]

correct_grammar(text, chat) ==
    IF text = <<>> \/ strip(text) = <<>> THEN [ret |-> Ret(text), chat_calls |-> 0]
    ELSE LET cleaned_text == clean_text(text)
             stripped == strip(chat.text)
             corrected_text ==
                 IF stripped # <<>> /\ Head(stripped) = "\"" /\ stripped[Len(stripped)] = "\""
                 THEN SubSeq(stripped, 2, Len(stripped) - 1)
                 ELSE stripped
         IN  IF ~chat.ok THEN [ret |-> Raise, chat_calls |-> 1]
             ELSE [ret |-> Ret(IF corrected_text # <<>> THEN corrected_text
                                ELSE cleaned_text),
                   chat_calls |-> 1]

(***************************************************************************)
(* tutor.py: SoftSkillTutor.provide_feedback                               *)
(* A canned message is a text of one item.                                 *)
(***************************************************************************)
Min(a, b) == IF a < b THEN a ELSE b

\* Mutant: the characters one text has more than the other count as differences
_generate_basic_feedback_by_length(original, corrected) ==
    LET differences ==
            Cardinality({i \in 1..Min(Len(original), Len(corrected)) :
                            original[i] # corrected[i]})
            + (IF Len(original) < Len(corrected) THEN Len(corrected) - Len(original)
               ELSE Len(original) - Len(corrected))
    IN  IF differences = 0
        THEN <<"Great job! Your text is well-written.">>
        ELSE IF differences <= 3
        THEN <<"Good work! Minor corrections were made to improve clarity and grammar.">>
        ELSE <<"Keep practicing! Several improvements were made. Focus on grammar rules and sentence structure.">>

_generate_basic_feedback(original, corrected) ==
    LET differences ==
            Cardinality({i \in 1..Min(Len(original), Len(corrected)) :
                            original[i] # corrected[i]})
    IN  IF differences = 0
        THEN <<"Great job! Your text is well-written.">>
        ELSE IF differences <= 3
        THEN <<"Good work! Minor corrections were made to improve clarity and grammar.">>
        ELSE <<"Keep practicing! Several improvements were made. Focus on grammar rules and sentence structure.">>

\* Mutant: the remote service is asked whether or not the tutor has a client
provide_feedback_always_remote(original_text, corrected_text, client, chat) ==
    IF original_text = <<>> \/ corrected_text = <<>>
    THEN [feedback |-> <<"Please provide both original and corrected text for feedback.">>,
          chat_calls |-> 0]
    ELSE LET original_clean == clean_text(original_text)
             corrected_clean == clean_text(corrected_text)
         IN  IF lower(original_clean) = lower(corrected_clean)
             THEN [feedback |-> <<"Excellent! Your text is grammatically correct and well-structured.">>,
                   chat_calls |-> 0]
             ELSE IF ~chat.ok
             THEN [feedback |-> _generate_basic_feedback(original_clean, corrected_clean),
                   chat_calls |-> 1]
             ELSE [feedback |-> strip(chat.text), chat_calls |-> 1]

provide_feedback(original_text, corrected_text, client, chat) ==
    IF original_text = <<>> \/ corrected_text = <<>>
    THEN [feedback |-> <<"Please provide both original and corrected text for feedback.">>,
          chat_calls |-> 0]
    ELSE LET original_clean == clean_text(original_text)
             corrected_clean == clean_text(corrected_text)
         IN  IF lower(original_clean) = lower(corrected_clean)
             THEN [feedback |-> <<"Excellent! Your text is grammatically correct and well-structured.">>,
                   chat_calls |-> 0]
             ELSE IF ~client
             THEN [feedback |-> _generate_basic_feedback(original_clean, corrected_clean),
                   chat_calls |-> 0]
             ELSE IF ~chat.ok
             THEN [feedback |-> _generate_basic_feedback(original_clean, corrected_clean),
                   chat_calls |-> 1]
             ELSE [feedback |-> strip(chat.text), chat_calls |-> 1]

\* one invocation of an external operation and whether it succeeded
Invoked(op, ok) == <<[op |-> op, ok |-> ok]>>

(***************************************************************************)
(* speech_live.py: analyze_live_speech                                     *)
(* audio_lib: the audio packages were imported; audio: the outcome of      *)
(* recording and transcribing.                                             *)
(***************************************************************************)
\* Mutant: a failed correction leaves the corrected text empty
analyze_live_speech_without_text(audio_lib, audio, chat_correct, chat_feedback) ==
    LET transcription == analyze_speech(audio)
        correction == correct_grammar(transcription.value, chat_correct)
        corrected == IF correction.ret.raised THEN <<>>
                     ELSE correction.ret.value
        feedback == provide_feedback(transcription.value, corrected, TRUE, chat_feedback)
    IN  IF ~audio_lib \/ transcription.raised
        THEN [ret |-> Raise, remote |-> <<>>]
        ELSE [ret |-> Ret([original |-> transcription.value,
                           corrected |-> corrected,
                           feedback |-> feedback.feedback]),
              remote |-> (IF correction.chat_calls > 0
                          THEN Invoked("correct_grammar", chat_correct.ok) ELSE <<>>)
                         \o (IF feedback.chat_calls > 0
                             THEN Invoked("provide_feedback", chat_feedback.ok) ELSE <<>>)]

\* provide_feedback handles the failure of its remote call itself and raises
\* nothing, so the handler of lines 82-83 ('Feedback not available.') is not
\* entered
analyze_live_speech(audio_lib, audio, chat_correct, chat_feedback) ==
    LET transcription == analyze_speech(audio)
        correction == correct_grammar(transcription.value, chat_correct)
        corrected == IF correction.ret.raised THEN transcription.value
                     ELSE correction.ret.value
        feedback == provide_feedback(transcription.value, corrected, TRUE, chat_feedback)
    IN  IF ~audio_lib \/ transcription.raised
        THEN [ret |-> Raise, remote |-> <<>>]
        ELSE [ret |-> Ret([original |-> transcription.value,
                           corrected |-> corrected,
                           feedback |-> feedback.feedback]),
              remote |-> (IF correction.chat_calls > 0
                          THEN Invoked("correct_grammar", chat_correct.ok) ELSE <<>>)
                         \o (IF feedback.chat_calls > 0
                             THEN Invoked("provide_feedback", chat_feedback.ok) ELSE <<>>)]

(***************************************************************************)
(* tutor.py: SoftSkillTutor.generate_lesson                                *)
(* A topic and a difficulty are texts.  In the texts the lesson is built   *)
(* from, a canned phrase is one item and a line break is the item "\n".    *)
(***************************************************************************)
learning_areas ==
    <<<<"g", "r", "a", "m", "m", "a", "r">>,
      <<"p", "r", "o", "n", "u", "n", "c", "i", "a", "t", "i", "o", "n">>,
      <<"c", "o", "m", "m", "u", "n", "i", "c", "a", "t", "i", "o", "n">>,
      <<"p", "r", "e", "s", "e", "n", "t", "a", "t", "i", "o", "n">>,
      <<"w", "r", "i", "t", "i", "n", "g">>,
      <<"v", "o", "c", "a", "b", "u", "l", "a", "r", "y">>,
      <<"c", "o", "n", "v", "e", "r", "s", "a", "t", "i", "o", "n">>>>

_estimate_lesson_time(difficulty_level) ==
    LET difficulty == lower(difficulty_level)
    IN  IF difficulty = <<"b", "e", "g", "i", "n", "n", "e", "r">> THEN <<"15-20 minutes">>
        ELSE IF difficulty = <<"i", "n", "t", "e", "r", "m", "e", "d", "i", "a", "t", "e">> THEN <<"20-30 minutes">>
        ELSE IF difficulty = <<"a", "d", "v", "a", "n", "c", "e", "d">> THEN <<"30-45 minutes">>
        ELSE <<"20-30 minutes">>

_suggest_next_steps(topic, difficulty_level) ==
    IF lower(difficulty_level) = <<"b", "e", "g", "i", "n", "n", "e", "r">>
    THEN <<<<"Practice more ">> \o topic \o <<" exercises">>,
           <<"Move to intermediate level">>,
           <<"Apply skills in daily communication">>>>
    ELSE IF lower(difficulty_level) = <<"i", "n", "t", "e", "r", "m", "e", "d", "i", "a", "t", "e">>
    THEN <<<<"Master advanced ">> \o topic \o <<" concepts">>,
           <<"Combine with other soft skills">>,
           <<"Practice in real-world scenarios">>>>
    ELSE <<<<"Teach ">> \o topic \o <<" to others">>,
           <<"Apply in professional settings">>,
           <<"Explore specialized applications">>>>

_get_fallback_tips(topic) ==
    LET t == lower(topic)
    IN  IF t = <<"g", "r", "a", "m", "m", "a", "r">>
        THEN <<<<"Review basic sentence structure">>, <<"Practice verb conjugations">>,
               <<"Study common grammar rules">>>>
        ELSE IF t = <<"p", "r", "o", "n", "u", "n", "c", "i", "a", "t", "i", "o", "n">>
        THEN <<<<"Practice with audio recordings">>, <<"Use phonetic guides">>,
               <<"Record yourself speaking">>>>
        ELSE IF t = <<"c", "o", "m", "m", "u", "n", "i", "c", "a", "t", "i", "o", "n">>
        THEN <<<<"Practice active listening">>, <<"Work on clear expression">>,
               <<"Study body language">>>>
        ELSE IF t = <<"w", "r", "i", "t", "i", "n", "g">>
        THEN <<<<"Read regularly">>, <<"Practice daily writing">>,
               <<"Focus on clarity and structure">>>>
        ELSE <<<<"Practice regularly">>, <<"Seek feedback">>, <<"Stay consistent">>>>

_default_objectives_generic(topic, difficulty) ==
    <<<<"Learn the fundamentals of ">> \o topic, <<"Practice with examples">>>>

_default_objectives(topic, difficulty) ==
    IF lower(topic) = <<"g", "r", "a", "m", "m", "a", "r">>
    THEN <<<<"Understand basic sentence structure">>,
           <<"Correct common verb tense errors">>>>
    ELSE <<<<"Learn the fundamentals of ">> \o topic, <<"Practice with examples">>>>

_default_key_concepts(topic) ==
    IF lower(topic) = <<"g", "r", "a", "m", "m", "a", "r">>
    THEN <<<<"Subject-verb agreement">>, <<"Tense consistency">>, <<"Punctuation basics">>>>
    ELSE <<<<"Core ideas for ">> \o topic>>

_default_examples(topic) ==
    IF lower(topic) = <<"g", "r", "a", "m", "m", "a", "r">>
    THEN <<<<"I go -> He goes (subject-verb)">>,
           <<"She was running -> She ran (tense simplification)">>>>
    ELSE <<<<"Example usage for ">> \o topic>>

_default_exercises(topic) ==
    IF lower(topic) = <<"g", "r", "a", "m", "m", "a", "r">>
    THEN <<<<"Correct 5 sentences with tense errors">>,
           <<"Rewrite sentences to improve clarity">>>>
    ELSE <<<<"Practice exercise for ">> \o topic>>

\* f"- {item}" for each item of a list
Bullets(items) == [i \in DOMAIN items |-> <<"-", " ">> \o items[i]]

\* the topic is compared as typed, without lower()
topic_supported_as_typed(topic) ==
    topic \in {learning_areas[i] : i \in DOMAIN learning_areas}

\* topic.lower() in [area.lower() for area in self.learning_areas]
topic_supported(topic) ==
    lower(topic) \in {lower(learning_areas[i]) : i \in DOMAIN learning_areas}

\* the lesson and the number of remote calls made for it
generate_lesson(topic, difficulty_level, client, chat) ==
    IF ~topic_supported(topic)
    THEN [lesson |-> [topic |-> topic,
                      error |-> <<"Topic '">> \o topic
                                \o <<"' not supported. Available topics: ">>
                                \o join(learning_areas, <<",", " ">>)],
          chat_calls |-> 0]
    ELSE IF ~client
    THEN LET content_parts ==
                 <<<<"Learning Objectives:", "\n">>>>
                 \o Bullets(_default_objectives(topic, difficulty_level))
                 \o <<<<"\n", "Key Concepts:", "\n">>>>
                 \o Bullets(_default_key_concepts(topic))
                 \o <<<<"\n", "Practical Examples:", "\n">>>>
                 \o Bullets(_default_examples(topic))
                 \o <<<<"\n", "Practice Exercises:", "\n">>>>
                 \o Bullets(_default_exercises(topic))
                 \o <<<<"\n", "Tips for Improvement:", "\n">>>>
                 \o Bullets(_get_fallback_tips(topic))
         IN  [lesson |-> [topic |-> title(topic),
                          difficulty_level |-> title(difficulty_level),
                          content |-> join(content_parts, <<"\n">>),
                          estimated_time |-> _estimate_lesson_time(difficulty_level),
                          next_steps |-> _suggest_next_steps(topic, difficulty_level)],
              chat_calls |-> 0]
    ELSE IF chat.ok
    THEN [lesson |-> [topic |-> title(topic),
                      difficulty_level |-> title(difficulty_level),
                      content |-> strip(chat.text),
                      estimated_time |-> _estimate_lesson_time(difficulty_level),
                      next_steps |-> _suggest_next_steps(topic, difficulty_level)],
          chat_calls |-> 1]
    ELSE [lesson |-> [topic |-> topic,
                      error |-> <<"Failed to generate lesson: ">>,
                      fallback_tips |-> _get_fallback_tips(topic)],
          chat_calls |-> 1]

(***************************************************************************)
(* Specification of lesson generation: generate_lesson called directly     *)
(***************************************************************************)
\* the seven topics, some in other letter case, and topics outside the list
LessonTopics ==
    {learning_areas[i] : i \in DOMAIN learning_areas}
    \cup {<<"G", "r", "a", "m", "m", "a", "r">>, <<"G", "R", "A", "M", "M", "A", "R">>, <<"g", "R", "a", "M", "m", "A", "r">>, <<"W", "r", "i", "t", "i", "n", "g">>, <<"V", "O", "C", "A", "B", "U", "L", "A", "R", "Y">>}
    \cup {<<>>, <<"g", "r", "a", "m">>, <<"g", "r", "a", "m", "m", "a", "r", " ">>, <<"c", "o", "o", "k", "i", "n", "g">>, <<"C", "o", "o", "k", "i", "n", "g">>, <<"p", "u", "b", "l", "i", "c", " ", "s", "p", "e", "a", "k", "i", "n", "g">>}

LessonDifficulties ==
    {<<"b", "e", "g", "i", "n", "n", "e", "r">>, <<"B", "e", "g", "i", "n", "n", "e", "r">>, <<"i", "n", "t", "e", "r", "m", "e", "d", "i", "a", "t", "e">>, <<"I", "N", "T", "E", "R", "M", "E", "D", "I", "A", "T", "E">>, <<"a", "d", "v", "a", "n", "c", "e", "d">>, <<"A", "d", "v", "a", "n", "c", "e", "d">>,
     <<"e", "x", "p", "e", "r", "t">>, <<"e", "a", "s", "y">>, <<>>}

LessonReplies ==
    {ChatFailed,
     [ok |-> TRUE, text |-> <<>>],
     [ok |-> TRUE, text |-> <<" ", "L", "e", "s", "s", "o", "n", "\n">>]}

InitLesson ==
    \E topic \in LessonTopics, difficulty_level \in LessonDifficulties,
       client \in BOOLEAN, chat \in LessonReplies :
        /\ (~client => ~chat.ok)
        /\ call = [fn |-> "generate_lesson",
                   pc |-> "call",
                   topic |-> topic,
                   difficulty_level |-> difficulty_level,
                   client |-> client,
                   chat |-> chat,
                   ret |-> Pending]

GenerateLessonCall ==
    /\ call.fn = "generate_lesson"
    /\ call.pc = "call"
    /\ call' = [call EXCEPT !.pc = "return",
                            !.ret = generate_lesson(call.topic, call.difficulty_level,
                                                    call.client, call.chat)]
    /\ UNCHANGED appvars

InitLessonCall == InitLesson /\ AppOff

SpecLesson == InitLessonCall /\ [][GenerateLessonCall]_vars

(***************************************************************************)
(* Properties of lesson generation (checked under SpecLesson)              *)
(***************************************************************************)
Recognised(topic) == \E i \in DOMAIN learning_areas : lower(topic) = learning_areas[i]

Contains(text, item) == \E i \in DOMAIN text : text[i] = item

\* C11: the topic is validated against the seven topics without regard to
\* letter case: a topic outside them yields, in fallback and in remote mode
\* alike, a lesson of the topic as given and a non-empty error, with no
\* content, estimated time or next steps, and no remote call is made; a topic
\* among them, in any letter case, is never rejected that way.
C11_UnsupportedTopicIsRejected ==
    Returned("generate_lesson")
    => LET lesson == call.ret.lesson
       IN  /\ ~Recognised(call.topic)
              => /\ DOMAIN lesson = {"topic", "error"}
                 /\ lesson.topic = call.topic
                 /\ lesson.error # <<>>
                 /\ call.ret.chat_calls = 0
           /\ Recognised(call.topic) => DOMAIN lesson # {"topic", "error"}

C11_Witness ==
    /\ Returned("generate_lesson")
    /\ call.topic = <<"c", "o", "o", "k", "i", "n", "g">>
    /\ call.client
    /\ call.chat.ok
    /\ DOMAIN call.ret.lesson = {"topic", "error"}
    /\ call.ret.chat_calls = 0

\* C12: in fallback mode a recognised topic, in any letter case and with any
\* difficulty, yields a lesson with non-empty content and no error, made
\* without a remote call; the content of a 'grammar' lesson holds both canned
\* grammar objectives, and the content of any other topic holds the generic
\* phrases of the four lookups followed by the topic.
C12_FallbackLessonIsTemplated ==
    (Returned("generate_lesson") /\ ~call.client /\ Recognised(call.topic))
    => LET lesson == call.ret.lesson
       IN  /\ "error" \notin DOMAIN lesson
           /\ "content" \in DOMAIN lesson
           /\ lesson.content # <<>>
           /\ call.ret.chat_calls = 0
           /\ lower(call.topic) = <<"g", "r", "a", "m", "m", "a", "r">>
              => /\ Contains(lesson.content, "Understand basic sentence structure")
                 /\ Contains(lesson.content, "Correct common verb tense errors")
           /\ lower(call.topic) # <<"g", "r", "a", "m", "m", "a", "r">>
              => \A phrase \in {"Learn the fundamentals of ", "Core ideas for ",
                                "Example usage for ", "Practice exercise for "} :
                     \E i \in DOMAIN lesson.content :
                         /\ lesson.content[i] = phrase
                         /\ SubSeq(lesson.content, i + 1, i + Len(call.topic)) = call.topic

C12_Witness ==
    /\ Returned("generate_lesson")
    /\ ~call.client
    /\ call.topic = <<"G", "R", "A", "M", "M", "A", "R">>
    /\ call.difficulty_level = <<"e", "x", "p", "e", "r", "t">>
    /\ Contains(call.ret.lesson.content, "Understand basic sentence structure")
    /\ Contains(call.ret.lesson.content, "Correct common verb tense errors")

\* C13: the estimated time and the next steps of a successful lesson belong to
\* one difficulty band: 'beginner', 'intermediate' and 'advanced' (in any
\* letter case) select their own time and their own next steps, and any other
\* difficulty selects the default time '20-30 minutes' and the next steps of
\* the band that time belongs to.
BandTime == [beginner |-> <<"15-20 minutes">>,
             intermediate |-> <<"20-30 minutes">>,
             advanced |-> <<"30-45 minutes">>]

BandFirstStep == [beginner |-> "Practice more ",
                  intermediate |-> "Master advanced ",
                  advanced |-> "Teach "]

BandOf(difficulty_level) ==
    IF lower(difficulty_level) = <<"b", "e", "g", "i", "n", "n", "e", "r">> THEN "beginner"
    ELSE IF lower(difficulty_level) = <<"a", "d", "v", "a", "n", "c", "e", "d">> THEN "advanced"
    ELSE "intermediate"

C13_TimeAndNextStepsAgree ==
    (Returned("generate_lesson") /\ "estimated_time" \in DOMAIN call.ret.lesson)
    => LET lesson == call.ret.lesson
           band == BandOf(call.difficulty_level)
       IN  /\ lesson.estimated_time = BandTime[band]
           /\ Len(lesson.next_steps) = 3
           /\ Head(lesson.next_steps[1]) = BandFirstStep[band]

(***************************************************************************)
(* tutor.py: format_lesson_for_user                                        *)
(* Each re.sub scans the text from the left: where the pattern matches,    *)
(* the replacement is emitted and the scan goes on behind the match,       *)
(* elsewhere the character is copied.  No pattern matches the empty text.  *)
(***************************************************************************)
\* the first index from i on whose character is outside chars
RECURSIVE Skip(_, _, _)
Skip(s, i, chars) ==
    IF i <= Len(s) /\ s[i] \in chars THEN Skip(s, i + 1, chars) ELSE i

\* '^' under re.MULTILINE
LineStart(s, i) == i = 1 \/ s[i - 1] = "\n"

\* the first index from i on at which marker occurs, 0 when it does not
RECURSIVE Find(_, _, _)
Find(s, i, marker) ==
    IF i + Len(marker) - 1 > Len(s) THEN 0
    ELSE IF SubSeq(s, i, i + Len(marker) - 1) = marker THEN i
    ELSE Find(s, i + 1, marker)

\* re.sub(r"^\s*#{1,6}\s*", "", text, flags=re.MULTILINE)
RECURSIVE SubHeadings(_, _)
SubHeadings(s, i) ==
    IF i > Len(s) THEN <<>>
    ELSE LET hashes == Skip(s, i, Whitespace)
             after == Min(Skip(s, hashes, {"#"}), hashes + 6)
         IN  IF LineStart(s, i) /\ hashes <= Len(s) /\ s[hashes] = "#"
             THEN SubHeadings(s, Skip(s, after, Whitespace))
             ELSE <<s[i]>> \o SubHeadings(s, i + 1)

sub_headings(text) == SubHeadings(text, 1)

\* the whole match is put back, markers included
RECURSIVE SubEmphasisKept(_, _, _)
SubEmphasisKept(s, i, marker) ==
    IF i > Len(s) THEN <<>>
    ELSE LET n == Len(marker)
             close == IF i + n - 1 <= Len(s) /\ SubSeq(s, i, i + n - 1) = marker
                      THEN Find(s, i + n, marker) ELSE 0
         IN  IF close > 0 /\ \A p \in (i + n)..(close - 1) : s[p] # "\n"
             THEN SubSeq(s, i, close + n - 1) \o SubEmphasisKept(s, close + n, marker)
             ELSE <<s[i]>> \o SubEmphasisKept(s, i + 1, marker)

\* re.sub(r"\*\*(.*?)\*\*", r"\1", text) and re.sub(r"\*(.*?)\*", r"\1", text):
\* the group is the shortest text up to the next marker, and holds no "\n"
RECURSIVE SubEmphasis(_, _, _)
SubEmphasis(s, i, marker) ==
    IF i > Len(s) THEN <<>>
    ELSE LET n == Len(marker)
             close == IF i + n - 1 <= Len(s) /\ SubSeq(s, i, i + n - 1) = marker
                      THEN Find(s, i + n, marker) ELSE 0
         IN  IF close > 0 /\ \A p \in (i + n)..(close - 1) : s[p] # "\n"
             THEN SubSeq(s, i + n, close - 1) \o SubEmphasis(s, close + n, marker)
             ELSE <<s[i]>> \o SubEmphasis(s, i + 1, marker)

sub_bold(text) == SubEmphasis(text, 1, <<"*", "*">>)

sub_italic(text) == SubEmphasis(text, 1, <<"*">>)

\* re.sub(r"^\s*[-\*]\s+", "- ", text, flags=re.MULTILINE)
RECURSIVE SubListMarkers(_, _)
SubListMarkers(s, i) ==
    IF i > Len(s) THEN <<>>
    ELSE LET marker == Skip(s, i, Whitespace)
         IN  IF /\ LineStart(s, i)
                /\ marker + 1 <= Len(s)
                /\ s[marker] \in {"-", "*"}
                /\ s[marker + 1] \in Whitespace
             THEN <<"-", " ">> \o SubListMarkers(s, Skip(s, marker + 1, Whitespace))
             ELSE <<s[i]>> \o SubListMarkers(s, i + 1)

sub_list_markers(text) == SubListMarkers(text, 1)

\* re.sub(r"\n{3,}", "\n\n", text)
RECURSIVE SubBlankLines(_, _)
SubBlankLines(s, i) ==
    IF i > Len(s) THEN <<>>
    ELSE IF i + 2 <= Len(s) /\ SubSeq(s, i, i + 2) = <<"\n", "\n", "\n">>
    THEN <<"\n", "\n">> \o SubBlankLines(s, Skip(s, i, {"\n"}))
    ELSE <<s[i]>> \o SubBlankLines(s, i + 1)

sub_blank_lines(text) == SubBlankLines(text, 1)

\* the content as it is appended to the parts of the output
render_content(content) ==
    strip(sub_blank_lines(sub_list_markers(sub_italic(sub_bold(sub_headings(content))))))

\* dict.get(key, default)
Get(lesson, key, default) == IF key \in DOMAIN lesson THEN lesson[key] ELSE default

\* the item " - " stands for the separator of the header, a dash between two
\* spaces
format_lesson_for_user(lesson) ==
    IF DOMAIN lesson = {} THEN <<"(no lesson content)">>
    ELSE LET topic == Get(lesson, "topic", <<"Lesson">>)
             difficulty == Get(lesson, "difficulty_level", <<>>)
             header == topic \o (IF difficulty # <<>> THEN <<" - ">> \o difficulty ELSE <<>>)
             content == Get(lesson, "content", <<>>)
             estimated_time == Get(lesson, "estimated_time", <<>>)
             next_steps == Get(lesson, "next_steps", <<>>)
             error == Get(lesson, "error", <<>>)
             fallback_tips == Get(lesson, "fallback_tips", <<>>)
             parts ==
                 <<header, <<>>>>
                 \o (IF content # <<>> THEN <<render_content(content), <<>>>> ELSE <<>>)
                 \o (IF estimated_time # <<>>
                     THEN <<<<"Estimated time: ">> \o estimated_time>> ELSE <<>>)
                 \o (IF next_steps # <<>>
                     THEN <<<<>>, <<"Next steps:">>>> \o Bullets(next_steps) ELSE <<>>)
                 \o (IF error # <<>>
                     THEN <<<<>>, <<"Error: ">> \o error>>
                          \o (IF fallback_tips # <<>>
                              THEN <<<<"Fallback tips:">>>> \o Bullets(fallback_tips)
                              ELSE <<>>)
                     ELSE <<>>)
         IN  join(parts, <<"\n">>)

(***************************************************************************)
(* Specification of lesson rendering: format_lesson_for_user called on a   *)
(* lesson that holds nothing but a content, or on what generate_lesson     *)
(* returned.                                                               *)
(***************************************************************************)
MaxContent == 6

RenderChars == {"a", "*", "#", "-", " ", "\n"}

RenderTopics == {<<"g", "r", "a", "m", "m", "a", "r">>, <<"W", "r", "i", "t", "i", "n", "g">>, <<"c", "o", "o", "k", "i", "n", "g">>}

RenderDifficulties == {<<"b", "e", "g", "i", "n", "n", "e", "r">>, <<"e", "x", "p", "e", "r", "t">>}

InitRender ==
    \E lesson \in {[content |-> content] : content \in Str(RenderChars, MaxContent)}
                  \cup {generate_lesson(topic, difficulty_level, client, chat).lesson :
                            topic \in RenderTopics,
                            difficulty_level \in RenderDifficulties,
                            client \in BOOLEAN,
                            chat \in LessonReplies} :
        /\ call = [fn |-> "format_lesson_for_user",
                   pc |-> "call",
                   lesson |-> lesson,
                   ret |-> Pending]
        /\ AppOff

FormatLessonForUser ==
    /\ call.fn = "format_lesson_for_user"
    /\ call.pc = "call"
    /\ call' = [call EXCEPT !.pc = "return", !.ret = format_lesson_for_user(call.lesson)]
    /\ UNCHANGED appvars

SpecRender == InitRender /\ [][FormatLessonForUser]_vars

(***************************************************************************)
(* Properties of lesson rendering (checked under SpecRender)               *)
(***************************************************************************)
\* k blank lines between two lines of text are k + 1 line breaks
LineBreaks(k) == [i \in 1..k + 1 |-> "\n"]

\* the output for a lesson that holds only a content which renders as text
OutputOfContent(text) == <<"Lesson", "\n", "\n">> \o text \o <<"\n">>

\* C14: in the rendered text a run of three or more blank lines of the
\* content is collapsed to exactly two blank lines and a shorter run is left as
\* it is: a content of two lines of text with k blank lines between them is
\* rendered with min(k, 2) blank lines between them.
C14_BlankLineRunsCollapseToTwo ==
    \A k \in 0..MaxContent :
        (/\ Returned("format_lesson_for_user")
         /\ call.lesson = [content |-> <<"a">> \o LineBreaks(k) \o <<"a">>])
        => call.ret = OutputOfContent(<<"a">> \o LineBreaks(Min(k, 2)) \o <<"a">>)

\* a content that is a word wrapped in double asterisks
IsBoldWord(content) ==
    /\ Len(content) >= 5
    /\ SubSeq(content, 1, 2) = <<"*", "*">>
    /\ SubSeq(content, Len(content) - 1, Len(content)) = <<"*", "*">>
    /\ \A i \in 3..Len(content) - 2 : content[i] \notin Whitespace \cup {"*"}

\* C15 as stated: for a content that is a word wrapped in double asterisks the
\* output of format_lesson_for_user is the word and nothing else.
C15_OutputIsTheWordAlone ==
    (/\ Returned("format_lesson_for_user")
     /\ DOMAIN call.lesson = {"content"}
     /\ IsBoldWord(call.lesson.content))
    => call.ret = SubSeq(call.lesson.content, 3, Len(call.lesson.content) - 2)

\* C15: for a lesson whose content is a word wrapped in double asterisks, the
\* content is rendered as that word with the markers removed and nothing
\* else; the output of format_lesson_for_user is the header line ('Lesson' when
\* the lesson has no topic), an empty line, the word and a closing line break.
C15_BoldWordRendersAsWord ==
    (/\ Returned("format_lesson_for_user")
     /\ DOMAIN call.lesson = {"content"}
     /\ IsBoldWord(call.lesson.content))
    => LET word == SubSeq(call.lesson.content, 3, Len(call.lesson.content) - 2)
       IN  /\ render_content(call.lesson.content) = word
           /\ call.ret = <<"Lesson", "\n", "\n">> \o word \o <<"\n">>

C15_Witness ==
    /\ Returned("format_lesson_for_user")
    /\ call.lesson = [content |-> <<"*", "*", "a", "a", "*", "*">>]
    /\ call.ret = <<"Lesson", "\n", "\n", "a", "a", "\n">>

(***************************************************************************)
(* Specification of text cleaning: clean_text called on a text, and then   *)
(* on what it returned.                                                    *)
(***************************************************************************)
MaxClean == 6

CleanChars == {"a", " ", "\n", "\r"}

InitClean ==
    \E text \in Str(CleanChars, MaxClean) :
        /\ call = [fn |-> "clean_text",
                   pc |-> "call",
                   text |-> text,
                   times |-> 0,
                   previous |-> text,
                   ret |-> text]
        /\ AppOff

\* the first call cleans the text, the second what the first returned
CleanText ==
    /\ call.fn = "clean_text"
    /\ call.times < 2
    /\ call' = [call EXCEPT !.pc = "return",
                            !.times = call.times + 1,
                            !.previous = call.ret,
                            !.ret = clean_text(call.ret)]
    /\ UNCHANGED appvars

SpecClean == InitClean /\ [][CleanText]_vars

(***************************************************************************)
(* Properties of text cleaning (checked under SpecClean)                   *)
(***************************************************************************)
\* C16: clean_text is idempotent: cleaning the text that clean_text returned
\* gives that text back, for every text, those mixing leading and trailing
\* whitespace with line feeds and carriage returns inside included.
C16_CleanTextIsIdempotent ==
    (Returned("clean_text") /\ call.times = 2) => call.ret = call.previous

C16_Witness ==
    /\ Returned("clean_text")
    /\ call.times = 2
    /\ call.text = <<" ", "a", "\n", "\r", "a", "\n">>
    /\ call.previous = <<"a", " ", "a">>
    /\ call.ret = <<"a", " ", "a">>

(***************************************************************************)
(* grammar.py: GrammarCorrector.analyze_grammar_errors                     *)
(* chat is the outcome of the remote call; the result is the analysis and  *)
(* the number of remote calls made.                                        *)
(***************************************************************************)
\* original.index(c), counted from 1
index(s, c) == CHOOSE i \in 1..Len(s) : s[i] = c /\ \A j \in 1..(i - 1) : s[j] # c

\* the length test is made before the corrected text is indexed
error_count_guarded(original, corrected) ==
    Ret(Cardinality({i \in 1..Len(original) :
                        /\ index(original, original[i]) <= Len(corrected)
                        /\ original[i] # corrected[index(original, original[i])]}))

\* len([c for c in original if c != corrected[original.index(c)]
\*      if original.index(c) < len(corrected)]): the corrected text is indexed
\* before the length test, which raises IndexError beyond its end
error_count(original, corrected) ==
    IF \E i \in 1..Len(original) : index(original, original[i]) > Len(corrected)
    THEN Raise
    ELSE Ret(Cardinality({i \in 1..Len(original) :
                             original[i] # corrected[index(original, original[i])]}))

_extract_improvements(original, corrected) ==
    LET improvements ==
            (IF Len(split(original)) # Len(split(corrected))
             THEN <<"Sentence structure improved">> ELSE <<>>)
            \o (IF lower(original) # lower(corrected)
                THEN <<"Grammar and clarity enhanced">> ELSE <<>>)
            \o (IF count(original, ",") # count(corrected, ",")
                THEN <<"Punctuation corrected">> ELSE <<>>)
    IN  IF improvements # <<>> THEN improvements
        ELSE <<"Text refined for better clarity">>

\* the record of the except branch; reason is the text of the exception
GrammarAnalysisFailed(reason) ==
    [has_errors |-> TRUE,
     error_count |-> 1,
     analysis |-> <<"Grammar analysis failed: ", reason>>,
     improvements |-> <<"Manual review recommended">>]

analyze_grammar_errors(original, corrected, chat) ==
    IF strip(original) = strip(corrected)
    THEN [analysis |-> [has_errors |-> FALSE,
                        error_count |-> 0,
                        analysis |-> <<"No grammar errors detected.">>,
                        improvements |-> <<>>],
          chat_calls |-> 0]
    ELSE IF ~chat.ok
    THEN [analysis |-> GrammarAnalysisFailed("remote call failed"), chat_calls |-> 1]
    ELSE IF error_count(original, corrected).raised
    THEN [analysis |-> GrammarAnalysisFailed("string index out of range"),
          chat_calls |-> 1]
    ELSE [analysis |-> [has_errors |-> TRUE,
                        error_count |-> error_count(original, corrected).value,
                        analysis |-> strip(chat.text),
                        improvements |-> _extract_improvements(original, corrected)],
          chat_calls |-> 1]

\* analyze_text(): the correction, and the analysis of what it changed
\* Mutant: a failed correction is attempted a second time
analyze_text_retrying(text, chat_correct, chat_analyze) ==
    LET correction == correct_grammar(text, chat_correct)
        analysed == analyze_grammar_errors(text, correction.ret.value, chat_analyze)
    IN  IF correction.ret.raised
        THEN [ret |-> Raise,
              remote |-> Invoked("correct_grammar", FALSE) \o Invoked("correct_grammar", FALSE)]
        ELSE [ret |-> Ret([original |-> text, corrected |-> correction.ret.value,
                           analysis |-> analysed.analysis]),
              remote |-> (IF correction.chat_calls > 0
                          THEN Invoked("correct_grammar", TRUE) ELSE <<>>)
                         \o (IF analysed.chat_calls > 0
                             THEN Invoked("analyze_grammar_errors", chat_analyze.ok)
                             ELSE <<>>)]

analyze_text(text, chat_correct, chat_analyze) ==
    LET correction == correct_grammar(text, chat_correct)
        analysed == analyze_grammar_errors(text, correction.ret.value, chat_analyze)
    IN  IF correction.ret.raised
        THEN [ret |-> Raise, remote |-> Invoked("correct_grammar", FALSE)]
        ELSE [ret |-> Ret([original |-> text,
                           corrected |-> correction.ret.value,
                           analysis |-> analysed.analysis]),
              remote |-> (IF correction.chat_calls > 0
                          THEN Invoked("correct_grammar", TRUE) ELSE <<>>)
                         \o (IF analysed.chat_calls > 0
                             THEN Invoked("analyze_grammar_errors", chat_analyze.ok)
                             ELSE <<>>)]

(***************************************************************************)
(* main.py: SoftSkillEnhancerApp                                           *)
(* One action per handler; what the user types and what the remote         *)
(* services answer are the inputs of the action.                           *)
(***************************************************************************)
AppTexts == {<<"a">>, <<"A">>, <<"a", ",">>}

AppReplies == {ChatFailed} \cup {[ok |-> TRUE, text |-> t] : t \in {<<"a">>, <<"a", " ", "b">>}}

\* the file is missing (the recogniser is not reached), the recogniser fails,
\* or it returns a transcript
AppAudio ==
    {[ok |-> FALSE, text |-> <<>>, file |-> FALSE],
     [ok |-> FALSE, text |-> <<>>, file |-> TRUE],
     [ok |-> TRUE, text |-> <<"a">>, file |-> TRUE]}

Recognize(audio) == IF audio.file THEN Invoked("recognize", audio.ok) ELSE <<>>

AppTopics == {<<"g", "r", "a", "m", "m", "a", "r">>, <<" ", "W", "r", "i", "t", "i", "n", "g">>, <<"c", "o", "o", "k", "i", "n", "g">>, <<>>}

AppDifficulties == {<<>>, <<"a", "d", "v", "a", "n", "c", "e", "d", " ">>, <<"e", "x", "p", "e", "r", "t">>}

InitApp ==
    /\ call = [fn |-> "none", pc |-> "none", ret |-> Pending]
    /\ menu = "startup"
    /\ running = TRUE
    /\ exit_status = None
    /\ session_data = <<>>
    /\ handler = "none"
    /\ output = "none"
    /\ remote = <<>>

\* what a handler leaves behind: the menu shown next, its last message, the
\* external operations it invoked
Handled(name, next_menu, message, invoked) ==
    /\ handler' = name
    /\ menu' = next_menu
    /\ output' = message
    /\ remote' = invoked
    /\ UNCHANGED <<call, running, exit_status>>

\* the exception leaves the handler and the loop: run() reports it and exits
FailedUncaught(name, next_menu, invoked) ==
    /\ handler' = name
    /\ menu' = "exited"
    /\ output' = "Initialization error"
    /\ exit_status' = Some(1)
    /\ remote' = invoked
    /\ UNCHANGED <<call, running, session_data>>

\* the record of the failed action is appended all the same
FailedRecorded(name, next_menu, invoked) ==
    /\ Handled(name, next_menu, "Error", invoked)
    /\ session_data' = Append(session_data, [type |-> "grammar",
                                             original |-> <<>>,
                                             corrected |-> <<>>,
                                             feedback |-> <<>>])

\* a handler's 'except Exception as e': the error is printed, the session is
\* left alone and the menu is shown again
Failed(name, next_menu, invoked) ==
    /\ Handled(name, next_menu, "Error", invoked)
    /\ UNCHANGED session_data

\* run(): load_api_key raises when the credential is missing
Startup ==
    /\ menu = "startup"
    /\ \E api_key \in BOOLEAN :
         IF api_key
         THEN /\ Handled("run", "main", "API Key Loaded Successfully!", <<>>)
              /\ UNCHANGED session_data
         ELSE /\ handler' = "run"
              /\ menu' = "exited"
              /\ output' = "Initialization error"
              /\ exit_status' = Some(1)
              /\ remote' = <<>>
              /\ UNCHANGED <<call, running, session_data>>

\* main menu, choices 1, 2 and 3
EnterGrammarMenu ==
    /\ menu = "main"
    /\ Handled("grammar_correction_menu", "grammar", "GRAMMAR CORRECTION & ANALYSIS", <<>>)
    /\ UNCHANGED session_data

EnterSpeechMenu ==
    /\ menu = "main"
    /\ Handled("speech_analysis_menu", "speech", "SPEECH ANALYSIS & PRONUNCIATION", <<>>)
    /\ UNCHANGED session_data

EnterTutoringMenu ==
    /\ menu = "main"
    /\ Handled("tutoring_menu", "tutoring", "INTERACTIVE TUTORING & LESSONS", <<>>)
    /\ UNCHANGED session_data

\* main menu, choice 4
ProgressAssessment ==
    /\ menu = "main"
    /\ UNCHANGED session_data
    /\ IF session_data = <<>>
       THEN Handled("progress_assessment", "main", "No progress data yet.", <<>>)
       ELSE \E chat \in ChatOutcomes, set_order \in SetOrders :
              LET assessed == assess_progress(session_data, TRUE, chat, set_order)
              IN  Handled("progress_assessment", "main", "report",
                          IF assessed.chat_calls > 0
                          THEN Invoked("assess_progress", chat.ok) ELSE <<>>)

\* main menu, choice 5
ShowHelp ==
    /\ menu = "main"
    /\ Handled("show_help", "main", "HELP & INFORMATION", <<>>)
    /\ UNCHANGED session_data

\* main menu, choice 6: the loop ends and run() returns
Exit ==
    /\ menu = "main"
    /\ handler' = "run"
    /\ menu' = "exited"
    /\ running' = FALSE
    /\ exit_status' = Some(0)
    /\ output' = "Goodbye! Keep improving!"
    /\ remote' = <<>>
    /\ UNCHANGED <<call, session_data>>

\* Mutant: an unrecognized choice leaves the submenu
InvalidChoiceLeavesMenu ==
    /\ menu \in {"main", "grammar", "speech", "tutoring"}
    /\ Handled("invalid", "main", "Invalid choice.", <<>>)
    /\ UNCHANGED session_data

\* any other choice, at any menu
InvalidChoice ==
    /\ menu \in {"main", "grammar", "speech", "tutoring"}
    /\ Handled("invalid", menu, "Invalid choice.", <<>>)
    /\ UNCHANGED session_data

\* the 'back' choice of a submenu
BackToMainMenu ==
    /\ menu \in {"grammar", "speech", "tutoring"}
    /\ Handled("back", "main", "MAIN MENU", <<>>)
    /\ UNCHANGED session_data

\* grammar menu, choice 1
CorrectSentence ==
    /\ menu = "grammar"
    /\ Len(session_data) < MaxRecords
    /\ \E text \in AppTexts \cup {<<>>}, chat_correct \in AppReplies,
          chat_feedback \in AppReplies :
         IF text = <<>>
         THEN /\ Handled("correct_sentence", "grammar", "Please enter some text.", <<>>)
              /\ UNCHANGED session_data
         ELSE LET correction == correct_grammar(text, chat_correct)
                  feedback == provide_feedback(text, correction.ret.value, TRUE,
                                               chat_feedback)
              IN  IF correction.ret.raised
                  THEN Failed("correct_sentence", "grammar",
                              Invoked("correct_grammar", FALSE))
                  ELSE /\ Handled("correct_sentence", "grammar", "RESULTS",
                                  Invoked("correct_grammar", TRUE)
                                  \o (IF feedback.chat_calls > 0
                                      THEN Invoked("provide_feedback", chat_feedback.ok)
                                      ELSE <<>>))
                       /\ session_data' =
                              Append(session_data,
                                     [type |-> "grammar",
                                      original |-> text,
                                      corrected |-> correction.ret.value,
                                      feedback |-> feedback.feedback])

\* grammar menu, choice 2: correct_grammar, then analyze_grammar_errors, which
\* calls the remote service when the corrected text differs and returns a
\* record of the failure when that call raises
AnalyzeTextDetailed ==
    /\ menu = "grammar"
    /\ \E text \in AppTexts \cup {<<>>}, chat_correct \in AppReplies,
          chat_analyze \in AppReplies :
         IF text = <<>>
         THEN /\ Handled("analyze_text_detailed", "grammar", "Please enter some text.", <<>>)
              /\ UNCHANGED session_data
         ELSE LET analysis == analyze_text(text, chat_correct, chat_analyze)
              IN  IF analysis.ret.raised
                  THEN Failed("analyze_text_detailed", "grammar", analysis.remote)
                  ELSE /\ Handled("analyze_text_detailed", "grammar", "DETAILED ANALYSIS",
                                  analysis.remote)
                       /\ UNCHANGED session_data

\* speech menu, choice 1
TranscribeAudio ==
    /\ menu = "speech"
    /\ \E path \in BOOLEAN, audio \in AppAudio :
         IF ~path
         THEN /\ Handled("transcribe_audio", "speech", "Please enter a file path.", <<>>)
              /\ UNCHANGED session_data
         ELSE IF analyze_speech(audio).raised
         THEN Failed("transcribe_audio", "speech", Recognize(audio))
         ELSE /\ Handled("transcribe_audio", "speech", "Transcription", Recognize(audio))
              /\ UNCHANGED session_data

\* speech menu, choice 2
AnalyzePronunciationChoice ==
    /\ menu = "speech"
    /\ UNCHANGED session_data
    /\ \E path \in BOOLEAN, audio \in AppAudio,
          expected \in {None} \cup {Some(e) : e \in AppTexts} :
         IF ~path
         THEN Handled("analyze_pronunciation", "speech", "Please enter a file path.", <<>>)
         ELSE Handled("analyze_pronunciation", "speech",
                      analyze_pronunciation(audio, expected).analysis,
                      Recognize(audio))

\* speech menu, choice 3
RecordAndAnalyzeLiveSpeech ==
    /\ menu = "speech"
    /\ Len(session_data) < MaxRecords
    /\ \E duration_ok \in BOOLEAN, audio_lib \in BOOLEAN, audio \in AppAudio,
          chat_correct \in AppReplies, chat_feedback \in AppReplies :
         LET result == analyze_live_speech(audio_lib, audio, chat_correct, chat_feedback)
         IN  IF ~duration_ok \/ result.ret.raised
             THEN Failed("record_and_analyze_live_speech", "speech",
                         IF duration_ok /\ audio_lib THEN Recognize(audio) ELSE <<>>)
             ELSE /\ Handled("record_and_analyze_live_speech", "speech", "Feedback",
                             Recognize(audio) \o result.remote)
                  /\ session_data' =
                         Append(session_data,
                                [type |-> "live_speech",
                                 original |-> result.ret.value.original,
                                 corrected |-> result.ret.value.corrected,
                                 feedback |-> result.ret.value.feedback])

\* speech menu, choice 4
ShowSupportedFormats ==
    /\ menu = "speech"
    /\ Handled("show_supported_formats", "speech", "SUPPORTED AUDIO FORMATS", <<>>)
    /\ UNCHANGED session_data

\* tutoring menu, choice 1: the topic and the difficulty are typed and
\* stripped, an empty difficulty is 'beginner'; the lesson, which holds the
\* error when the topic is not supported or the remote call raised, is printed
GenerateLesson ==
    /\ menu = "tutoring"
    /\ UNCHANGED session_data
    /\ \E topic \in AppTopics, difficulty \in AppDifficulties, chat \in LessonReplies :
         LET generated ==
                 generate_lesson(strip(topic),
                                 IF strip(difficulty) = <<>> THEN <<"b", "e", "g", "i", "n", "n", "e", "r">>
                                 ELSE strip(difficulty),
                                 TRUE, chat)
         IN  Handled("generate_lesson", "tutoring", "LESSON",
                     IF generated.chat_calls > 0
                     THEN Invoked("generate_lesson", chat.ok) ELSE <<>>)

\* tutoring menu, choice 2
ShowLearningTopics ==
    /\ menu = "tutoring"
    /\ Handled("show_learning_topics", "tutoring", "AVAILABLE TOPICS", <<>>)
    /\ UNCHANGED session_data

\* the standard input ends at a prompt: input() raises EOFError outside the
\* handlers' try blocks, and the 'except Exception' of run(), which spans the
\* menu loop, reports it as an initialization error and exits with status 1
StdinClosed ==
    /\ menu \in {"main", "grammar", "speech", "tutoring"}
    /\ handler' = "run"
    /\ menu' = "exited"
    /\ output' = "Initialization error"
    /\ exit_status' = Some(1)
    /\ remote' = <<>>
    /\ UNCHANGED <<call, running, session_data>>

NextApp ==
    \/ Startup
    \/ EnterGrammarMenu
    \/ EnterSpeechMenu
    \/ EnterTutoringMenu
    \/ ProgressAssessment
    \/ ShowHelp
    \/ Exit
    \/ InvalidChoice
    \/ BackToMainMenu
    \/ CorrectSentence
    \/ AnalyzeTextDetailed
    \/ TranscribeAudio
    \/ AnalyzePronunciationChoice
    \/ RecordAndAnalyzeLiveSpeech
    \/ ShowSupportedFormats
    \/ GenerateLesson
    \/ ShowLearningTopics
    \/ StdinClosed

SpecApp == InitApp /\ [][NextApp]_vars

(***************************************************************************)
(* Specification of progress assessment: assess_progress called directly,  *)
(* or through the menu of the running application.                         *)
(***************************************************************************)
InitSession == (InitAssess /\ AppOff) \/ InitApp

NextSession == AssessProgress \/ NextApp

SpecSession == InitSession /\ [][NextSession]_vars

(***************************************************************************)
(* Properties of progress assessment on an empty session (SpecSession)     *)
(***************************************************************************)
\* C8: for an empty sequence of records assess_progress returns progress 0,
\* raising nothing and without a remote call; and the menu's progress
\* assessment on an empty session prints its notice, invokes nothing and is
\* back at the main menu with the application still running.
C8_EmptySessionIsNoError ==
    /\ (Returned("assess_progress") /\ call.user_responses = <<>>)
       => /\ call.ret.report.progress_score = 0
          /\ call.ret.report.assessment = <<"No data available for assessment.">>
          /\ call.ret.chat_calls = 0
    /\ (handler = "progress_assessment" /\ session_data = <<>>)
       => /\ menu = "main"
          /\ output = "No progress data yet."
          /\ remote = <<>>
          /\ running
          /\ exit_status = None

C8_Witness ==
    /\ handler = "progress_assessment"
    /\ session_data = <<>>
    /\ menu = "main"
    /\ output = "No progress data yet."

(***************************************************************************)
(* Properties of the menu loop (checked under SpecApp)                     *)
(***************************************************************************)
Menus == {"main", "grammar", "speech", "tutoring"}

\* an external operation invoked by the last handler failed
ServiceFailed == \E i \in DOMAIN remote : ~remote[i].ok

\* C17: whenever an external call of the last handler failed (text
\* correction, feedback, detailed analysis, lesson generation, progress
\* narrative, transcription), the failure has become a printed error message or
\* the handler's output built from a fallback value, and the loop goes on: the
\* application is at a menu prompt, still running, with no exit status.
C17_ServiceFailureKeepsLoopRunning ==
    ServiceFailed
    => /\ menu \in Menus
       /\ running
       /\ exit_status = None
       /\ output \notin {"Initialization error", "none"}
       /\ (handler \in {"correct_sentence", "analyze_text_detailed"}
           /\ remote = Invoked("correct_grammar", FALSE))
          => output = "Error"
       /\ handler = "transcribe_audio" => output = "Error"
       /\ handler = "generate_lesson" => output = "LESSON"
       /\ handler = "progress_assessment" => output = "report"

C17_Witness ==
    /\ handler = "correct_sentence"
    /\ remote = Invoked("correct_grammar", FALSE)
    /\ output = "Error"
    /\ menu = "grammar"
    /\ running
    /\ exit_status = None
    /\ Len(session_data) = 1

\* C19: the exit status becomes 1 only at startup, when the credential is
\* missing (no menu has been shown), and 0 only by choice 6 of the main menu:
\* no step taken after a successful startup sets the exit status to 1.
C19_ExitStatusOneOnlyAtStartup ==
    [][/\ (exit_status' = Some(1) /\ exit_status = None)
          => (menu = "startup" /\ output' = "Initialization error")
       /\ (exit_status' = Some(0) /\ exit_status = None)
          => (menu = "main" /\ ~running')]_vars

\* C20: the session list only grows, by one record at its end, of kind
\* 'grammar' after a sentence correction that printed its results or of kind
\* 'live_speech' after a live-speech analysis that printed its feedback; the
\* records it held stay as they were, in their order; every other step, a
\* failed action included, leaves the list unchanged.
C20_SessionIsAppendOnly ==
    [][\/ session_data' = session_data
       \/ /\ Len(session_data') = Len(session_data) + 1
          /\ SubSeq(session_data', 1, Len(session_data)) = session_data
          /\ LET record == session_data'[Len(session_data')]
             IN  \/ /\ record.type = "grammar"
                    /\ handler' = "correct_sentence"
                    /\ output' = "RESULTS"
                 \/ /\ record.type = "live_speech"
                    /\ handler' = "record_and_analyze_live_speech"
                    /\ output' = "Feedback"]_vars

C20_Witness ==
    /\ Len(session_data) = 2
    /\ session_data[1].type = "grammar"
    /\ session_data[2].type = "live_speech"
    /\ handler = "generate_lesson"

(***************************************************************************)
(* Specification of the remote-call sites: correct_grammar,                *)
(* provide_feedback, generate_lesson or assess_progress called directly,   *)
(* with a remote service that replies or raises.                           *)
(***************************************************************************)
CallTexts ==
    AppTexts \cup {<<>>, <<" ">>, <<"b">>, <<"a", " ", "b">>}
             \cup {<<"a", "a", "a", "a">>, <<"b", "b", "b", "a">>, <<"b", "b", "b", "b">>}

CallReplies == AppReplies \cup {[ok |-> TRUE, text |-> <<"\"", "a", "\"">>],
                                [ok |-> TRUE, text |-> <<" ">>]}

InitCorrectGrammar ==
    \E text \in CallTexts, chat \in CallReplies :
        call = [fn |-> "correct_grammar",
                pc |-> "call",
                text |-> text,
                chat |-> chat,
                ret |-> Pending]

InitProvideFeedback ==
    \E original_text \in CallTexts, corrected_text \in CallTexts,
       client \in BOOLEAN, chat \in CallReplies :
        /\ (~client => ~chat.ok)
        /\ call = [fn |-> "provide_feedback",
                   pc |-> "call",
                   original_text |-> original_text,
                   corrected_text |-> corrected_text,
                   client |-> client,
                   chat |-> chat,
                   ret |-> Pending]

InitRemote ==
    (InitCorrectGrammar \/ InitProvideFeedback \/ InitLesson \/ InitAssess) /\ AppOff

CorrectGrammar ==
    /\ call.fn = "correct_grammar"
    /\ call.pc = "call"
    /\ call' = [call EXCEPT !.pc = "return", !.ret = correct_grammar(call.text, call.chat)]
    /\ UNCHANGED appvars

ProvideFeedback ==
    /\ call.fn = "provide_feedback"
    /\ call.pc = "call"
    /\ call' = [call EXCEPT !.pc = "return",
                            !.ret = provide_feedback(call.original_text,
                                                     call.corrected_text,
                                                     call.client, call.chat)]
    /\ UNCHANGED appvars

NextRemote == CorrectGrammar \/ ProvideFeedback \/ GenerateLessonCall \/ AssessProgress

SpecRemote == InitRemote /\ [][NextRemote]_vars

(***************************************************************************)
(* Properties of the remote-call sites (checked under SpecRemote)          *)
(***************************************************************************)
\* the call has returned after its remote call raised
RemoteRaised == call.pc = "return" /\ call.ret.chat_calls = 1 /\ ~call.chat.ok

\* C18 as stated: when its remote call raises, each of the four operations
\* returns what its local computation yields: correct_grammar returns a text,
\* provide_feedback the basic feedback, generate_lesson the templated lesson
\* and assess_progress a report with the locally computed progress.
C18_RemoteFailureReturnsLocalValue ==
    RemoteRaised
    => /\ call.fn = "correct_grammar" => ~call.ret.ret.raised
       /\ call.fn = "provide_feedback"
          => call.ret.feedback
             = provide_feedback(call.original_text, call.corrected_text,
                                FALSE, call.chat).feedback
       /\ call.fn = "generate_lesson"
          => call.ret.lesson
             = generate_lesson(call.topic, call.difficulty_level, FALSE, call.chat).lesson
       /\ call.fn = "assess_progress"
          => ReportsProgress(call.ret.report,
                             Cardinality(Improved(call.user_responses)),
                             Len(call.user_responses))

\* C18: every remote-call site handles the exception of its remote call, but
\* only provide_feedback answers it with its local value, the basic feedback;
\* generate_lesson returns an error lesson without content that carries the
\* local fallback tips, assess_progress returns the fixed failure record with
\* progress 0 and without the session counts, and correct_grammar raises.
C18_RemoteFailureOutcomes ==
    RemoteRaised
    => /\ call.fn = "correct_grammar" => call.ret.ret.raised
       /\ call.fn = "provide_feedback"
          => call.ret.feedback
             = provide_feedback(call.original_text, call.corrected_text,
                                FALSE, call.chat).feedback
       /\ call.fn = "generate_lesson"
          => /\ DOMAIN call.ret.lesson = {"topic", "error", "fallback_tips"}
             /\ call.ret.lesson.error # <<>>
             /\ call.ret.lesson.fallback_tips = _get_fallback_tips(call.topic)
             /\ \A i \in DOMAIN call.ret.lesson.fallback_tips :
                    Contains(generate_lesson(call.topic, call.difficulty_level,
                                             FALSE, call.chat).lesson.content,
                             call.ret.lesson.fallback_tips[i][1])
       /\ call.fn = "assess_progress"
          => /\ call.ret.report.progress_score = 0
             /\ call.ret.report.assessment = <<"Assessment failed">>
             /\ DOMAIN call.ret.report = {"progress_score", "assessment", "recommendations"}

C18_Witness ==
    /\ RemoteRaised
    /\ call.fn = "generate_lesson"
    /\ call.topic = <<"W", "r", "i", "t", "i", "n", "g">>
    /\ call.ret.lesson.fallback_tips
       = <<<<"Read regularly">>, <<"Practice daily writing">>,
           <<"Focus on clarity and structure">>>>

(***************************************************************************)
(* Specification of the grammar corrector: correct_grammar or              *)
(* analyze_grammar_errors called directly on short texts.                  *)
(***************************************************************************)
MaxText == 3

GrammarChars == {"a", "b", " "}

InputChars == {"a", " ", "\n"}

ReplyChars == {"a", "\"", " "}

InitAnalyzeGrammarErrors ==
    \E original \in Str(GrammarChars, MaxText), corrected \in Str(GrammarChars, MaxText),
       chat \in ChatOutcomes :
        call = [fn |-> "analyze_grammar_errors",
                pc |-> "call",
                original |-> original,
                corrected |-> corrected,
                chat |-> chat,
                ret |-> Pending]

InitCorrectGrammarText ==
    \E text \in Str(InputChars, MaxText),
       chat \in {ChatFailed} \cup {[ok |-> TRUE, text |-> reply] :
                                      reply \in Str(ReplyChars, MaxText)} :
        call = [fn |-> "correct_grammar",
                pc |-> "call",
                text |-> text,
                chat |-> chat,
                ret |-> Pending]

InitGrammar == (InitAnalyzeGrammarErrors \/ InitCorrectGrammarText) /\ AppOff

AnalyzeGrammarErrors ==
    /\ call.fn = "analyze_grammar_errors"
    /\ call.pc = "call"
    /\ call' = [call EXCEPT !.pc = "return",
                            !.ret = analyze_grammar_errors(call.original, call.corrected,
                                                           call.chat)]
    /\ UNCHANGED appvars

NextGrammar == CorrectGrammar \/ AnalyzeGrammarErrors

SpecGrammar == InitGrammar /\ [][NextGrammar]_vars

(***************************************************************************)
(* Properties of the grammar corrector (checked under SpecGrammar)         *)
(***************************************************************************)
\* some character of the original occurs first at a position behind the end
\* of the corrected text
OutOfRange(original, corrected) ==
    \E i \in 1..Len(original) :
        /\ i > Len(corrected)
        /\ \A j \in 1..(i - 1) : original[j] # original[i]

IsFailureRecord(analysis) ==
    /\ analysis.has_errors
    /\ analysis.error_count = 1
    /\ analysis.improvements = <<"Manual review recommended">>
    /\ Head(analysis.analysis) = "Grammar analysis failed: "

\* C21 as stated: whenever some character of the original first occurs at an
\* index >= len(corrected), analyze_grammar_errors returns the failure record
\* although the remote analysis call succeeded.
C21_OutOfRangeYieldsFailureRecord ==
    (/\ Returned("analyze_grammar_errors")
     /\ call.chat.ok
     /\ OutOfRange(call.original, call.corrected))
    => /\ IsFailureRecord(call.ret.analysis)
       /\ call.ret.chat_calls = 1

\* C21: the same for texts that differ after stripping; texts that are equal
\* after stripping return the 'no errors' record before any indexing and
\* without a remote call; and when no character is out of range and the remote
\* call succeeded, error_count is the number of characters of the original that
\* differ from the corrected text at the position of their first occurrence.
C21_OutOfRangeOfDifferingTextsYieldsFailureRecord ==
    (Returned("analyze_grammar_errors") /\ call.chat.ok)
    => LET analysis == call.ret.analysis
       IN  IF strip(call.original) = strip(call.corrected)
           THEN /\ ~analysis.has_errors
                /\ analysis.error_count = 0
                /\ call.ret.chat_calls = 0
           ELSE IF OutOfRange(call.original, call.corrected)
           THEN /\ IsFailureRecord(analysis)
                /\ analysis.analysis[2] = "string index out of range"
                /\ call.ret.chat_calls = 1
           ELSE /\ analysis.has_errors
                /\ analysis.analysis = strip(call.chat.text)
                /\ call.ret.chat_calls = 1
                /\ analysis.error_count
                   = Cardinality({i \in 1..Len(call.original) :
                        \E k \in 1..i :
                            /\ call.original[k] = call.original[i]
                            /\ \A j \in 1..(k - 1) : call.original[j] # call.original[i]
                            /\ call.corrected[k] # call.original[i]})

C21_Witness ==
    /\ Returned("analyze_grammar_errors")
    /\ call.chat.ok
    /\ call.original = <<"a", "b">>
    /\ call.corrected = <<"a">>
    /\ IsFailureRecord(call.ret.analysis)
    /\ call.ret.chat_calls = 1

(***************************************************************************)
(* Properties of the tutor without a client (checked under SpecRemote)     *)
(***************************************************************************)
FallbackMode(fn) == Returned(fn) /\ ~call.client

\* two reports that agree but for the order of their common_errors
SameUpToErrorOrder(r1, r2) ==
    /\ DOMAIN r1 = DOMAIN r2
    /\ \A k \in DOMAIN r1 \ {"common_errors"} : r1[k] = r2[k]
    /\ "common_errors" \in DOMAIN r1
       => /\ Len(r1.common_errors) = Len(r2.common_errors)
          /\ {r1.common_errors[i] : i \in DOMAIN r1.common_errors}
             = {r2.common_errors[i] : i \in DOMAIN r2.common_errors}

\* C22 as stated: without a client provide_feedback, generate_lesson and
\* assess_progress make no remote call, and what each returns is determined by
\* its arguments: it is the same whatever the remote service would reply and in
\* whatever order a set is iterated.
C22_FallbackResultIsDetermined ==
    /\ FallbackMode("provide_feedback")
       => /\ call.ret.chat_calls = 0
          /\ \A chat \in CallReplies :
                 call.ret = provide_feedback(call.original_text, call.corrected_text,
                                             FALSE, chat)
    /\ FallbackMode("generate_lesson")
       => /\ call.ret.chat_calls = 0
          /\ \A chat \in LessonReplies :
                 call.ret = generate_lesson(call.topic, call.difficulty_level, FALSE, chat)
    /\ FallbackMode("assess_progress")
       => /\ call.ret.chat_calls = 0
          /\ \A chat \in ChatOutcomes, set_order \in SetOrders :
                 call.ret = assess_progress(call.user_responses, FALSE, chat, set_order)

\* C22: the same, except that the order of common_errors in the report of
\* assess_progress is the iteration order of a set of strings, which the
\* arguments do not determine; every other field of the report, and the
\* members of common_errors, are determined by the arguments.
C22_FallbackResultIsDeterminedUpToSetOrder ==
    /\ FallbackMode("provide_feedback")
       => /\ call.ret.chat_calls = 0
          /\ \A chat \in CallReplies :
                 call.ret = provide_feedback(call.original_text, call.corrected_text,
                                             FALSE, chat)
    /\ FallbackMode("generate_lesson")
       => /\ call.ret.chat_calls = 0
          /\ \A chat \in LessonReplies :
                 call.ret = generate_lesson(call.topic, call.difficulty_level, FALSE, chat)
    /\ FallbackMode("assess_progress")
       => /\ call.ret.chat_calls = 0
          /\ \A chat \in ChatOutcomes, set_order \in SetOrders :
                 SameUpToErrorOrder(call.ret.report,
                                    assess_progress(call.user_responses, FALSE, chat,
                                                    set_order).report)

C22_Witness ==
    /\ FallbackMode("assess_progress")
    /\ call.user_responses = <<[original |-> <<"a", ",">>, corrected |-> <<"a", " ", "b">>]>>
    /\ call.ret.chat_calls = 0
    /\ call.ret.report.common_errors = <<"grammar", "punctuation", "word_choice">>
    /\ call.ret.report.improvement_sessions = 1

(***************************************************************************)
(* Properties of the remote operations of one action (under SpecApp)       *)
(***************************************************************************)
RemoteOperations ==
    {"correct_grammar", "provide_feedback", "analyze_grammar_errors",
     "generate_lesson", "assess_progress", "recognize"}

\* C23: nothing is retried: among the invocations of one user action every
\* remote operation (grammar correction, feedback, analysis, lesson generation,
\* progress narrative, transcription) occurs at most once, so a failed
\* invocation is followed by no invocation of the same operation before the
\* next action.
C23_NoRemoteOperationIsRetried ==
    /\ \A i \in DOMAIN remote : remote[i].op \in RemoteOperations
    /\ \A i, j \in DOMAIN remote : remote[i].op = remote[j].op => i = j

\* the correction of a live recording failed: the action goes on without
\* attempting the correction again
C23_Witness ==
    /\ handler = "record_and_analyze_live_speech"
    /\ remote = Invoked("recognize", TRUE) \o Invoked("correct_grammar", FALSE)
    /\ output = "Feedback"
    /\ menu = "speech"

(***************************************************************************)
(* Properties of live-speech analysis (checked under SpecApp)              *)
(***************************************************************************)
InvokedAndFailed(invoked, op) == \E i \in DOMAIN invoked : invoked[i] = [op |-> op, ok |-> FALSE]

\* a step of record_and_analyze_live_speech: when it printed the feedback it
\* appended one live_speech record whose corrected text is the transcription
\* if the correction failed, so that the loop of assess_progress counts no
\* improvement for it, and whose feedback is failed_feedback if the feedback
\* call failed; when it printed an error, a failed transcription included, it
\* appended nothing
LiveSpeechStep(failed_feedback(_)) ==
    handler' = "record_and_analyze_live_speech"
    => IF output' = "Feedback"
       THEN /\ Len(session_data') = Len(session_data) + 1
            /\ SubSeq(session_data', 1, Len(session_data)) = session_data
            /\ ~InvokedAndFailed(remote', "recognize")
            /\ LET record == session_data'[Len(session_data')]
               IN  /\ record.type = "live_speech"
                   /\ InvokedAndFailed(remote', "correct_grammar")
                      => /\ record.corrected = record.original
                         /\ Tally(session_data').improvements
                            = Tally(session_data).improvements
                   /\ InvokedAndFailed(remote', "provide_feedback")
                      => record.feedback = failed_feedback(record)
       ELSE /\ output' = "Error"
            /\ session_data' = session_data

FeedbackNotAvailable(record) == <<"Feedback not available.">>

BasicFeedback(record) ==
    _generate_basic_feedback(clean_text(record.original), clean_text(record.corrected))

\* C24 as stated: in live-speech analysis a failed correction falls back to
\* the transcription, a failed feedback yields 'Feedback not available.', the
\* record is appended all the same and is not counted as an improvement, and a
\* failed transcription appends no record.
C24_FailedFeedbackIsNotAvailable == [][LiveSpeechStep(FeedbackNotAvailable)]_vars

\* C24: the same, except that a failed feedback call yields the basic
\* feedback that provide_feedback computes from the two texts.
C24_FailedFeedbackIsBasicFeedback == [][LiveSpeechStep(BasicFeedback)]_vars

\* two live recordings: the first kept its transcription, the feedback call of
\* the second failed
C24_Witness ==
    /\ handler = "record_and_analyze_live_speech"
    /\ output = "Feedback"
    /\ Len(session_data) = 2
    /\ session_data[1] = [type |-> "live_speech", original |-> <<"a">>,
                          corrected |-> <<"a">>,
                          feedback |-> <<"Excellent! Your text is grammatically correct and well-structured.">>]
    /\ session_data[2].corrected = <<"a", " ", "b">>
    /\ session_data[2].feedback = <<"Great job! Your text is well-written.">>
    /\ InvokedAndFailed(remote, "provide_feedback")
    /\ Tally(session_data).improvements = 1

(***************************************************************************)
(* Properties of correct_grammar (checked under SpecGrammar)               *)
(***************************************************************************)
\* a text without the pair of double quotes that surrounds it
Unquoted(s) ==
    IF Len(s) >= 2 /\ s[1] = "\"" /\ s[Len(s)] = "\""
    THEN SubSeq(s, 2, Len(s) - 1)
    ELSE s

Blank(s) == \A i \in DOMAIN s : s[i] \in Whitespace

\* C25: correct_grammar returns an empty or whitespace-only text unchanged
\* without a remote call; for any other text and a remote call that succeeds it
\* returns a non-empty text: the stripped reply without the pair of double
\* quotes that surrounds it, or the cleaned input when that is empty.
C25_ReplyIsUnquotedOrInputCleaned ==
    Returned("correct_grammar")
    => IF Blank(call.text)
       THEN /\ call.ret.ret = Ret(call.text)
            /\ call.ret.chat_calls = 0
       ELSE call.chat.ok
            => /\ ~call.ret.ret.raised
               /\ call.ret.chat_calls = 1
               /\ call.ret.ret.value # <<>>
               /\ call.ret.ret.value
                  = (IF Unquoted(strip(call.chat.text)) # <<>>
                     THEN Unquoted(strip(call.chat.text))
                     ELSE clean_text(call.text))

(***************************************************************************)
(* Properties of the error categories of a report (under SpecTutor)        *)
(***************************************************************************)
\* a call of assess_progress, or of its part after the loop, has returned a
\* report of a non-empty session that did not fail
Reported ==
    /\ Returned("assess_progress") \/ Returned("assess_tallied")
    /\ "common_errors" \in DOMAIN call.ret.report

Listed(list, item) == \E i \in DOMAIN list : list[i] = item

\* the records of the call that differ: counted by the loop, or given
DifferingRecords ==
    IF call.fn = "assess_progress" THEN Cardinality(Improved(call.user_responses))
    ELSE call.improvements

\* what the report says of 'grammar': it is listed exactly when a record
\* differs, so is its recommendation, and no other category is listed
\* without it
GrammarIffImproved(report) ==
    /\ report.improvement_sessions = DifferingRecords
    /\ Listed(report.common_errors, "grammar") <=> report.improvement_sessions > 0
    /\ Listed(report.recommendations, "Study verb tenses and sentence structure")
       <=> DifferingRecords > 0
    /\ Listed(report.common_errors, "punctuation")
       => Listed(report.common_errors, "grammar")
    /\ Listed(report.common_errors, "word_choice")
       => Listed(report.common_errors, "grammar")

\* C26 as stated: in every report of a non-empty session that did not fail,
\* 'grammar' is listed iff improvement_sessions > 0, which is the case iff
\* progress_score < 100; the recommendation 'Study verb tenses and sentence
\* structure' is made exactly then, and 'punctuation' and 'word_choice' are
\* never listed without 'grammar'.
C26_GrammarIffScoreBelowHundred ==
    Reported
    => /\ GrammarIffImproved(call.ret.report)
       /\ call.ret.report.improvement_sessions > 0
          <=> call.ret.report.progress_score < 100 * Centi

\* C26: the same, except that the reported progress_score is rounded to one
\* decimal: it is below 100 iff more than one record in 2000 differs, and
\* reads 100.0 with improvement_sessions > 0 otherwise.
C26_GrammarIffImprovedScoreRounded ==
    Reported
    => /\ GrammarIffImproved(call.ret.report)
       /\ call.ret.report.progress_score < 100 * Centi
          <=> 2000 * call.ret.report.improvement_sessions
              > call.ret.report.total_sessions

\* a comma was the only change of the one record that differs
C26_Witness ==
    /\ Returned("assess_progress")
    /\ call.user_responses = <<[original |-> <<"a">>, corrected |-> <<"a">>],
                               [original |-> <<"a">>, corrected |-> <<"a", ",">>]>>
    /\ call.ret.report.common_errors = <<"punctuation", "grammar">>
    /\ call.ret.report.improvement_sessions = 1
    /\ call.ret.report.progress_score = 50 * Centi
    /\ Listed(call.ret.report.recommendations, "Study verb tenses and sentence structure")

(***************************************************************************)
(* Properties of menu navigation (checked under SpecApp)                   *)
(***************************************************************************)
Submenus == {"grammar", "speech", "tutoring"}

\* the choice of the main menu that enters a submenu
EntryOf(submenu) ==
    CASE submenu = "grammar" -> "grammar_correction_menu"
      [] submenu = "speech" -> "speech_analysis_menu"
      [] submenu = "tutoring" -> "tutoring_menu"

\* C27: a submenu is entered from the main menu by its choice (1, 2 or 3) and
\* left for the main menu only by its 'back' choice; an unrecognized choice at
\* any menu leaves the menu and the session as they are and the application
\* running; the application ends with status 0 only by choice 6 of the main
\* menu, so from inside a submenu only after going back: a step taken inside
\* a submenu stays there, goes back, or ends abnormally with status 1.
C27_MenuNavigation ==
    [][/\ (menu' \in Submenus /\ menu' # menu)
          => (menu = "main" /\ handler' = EntryOf(menu'))
       /\ (menu \in Submenus /\ menu' = "main") => handler' = "back"
       /\ handler' = "invalid"
          => /\ menu' = menu
             /\ session_data' = session_data
             /\ running'
             /\ exit_status' = None
       /\ (exit_status' = Some(0) \/ ~running')
          => (menu = "main" /\ output' = "Goodbye! Keep improving!")
       /\ menu \in Submenus
          => /\ menu' \in {menu, "main", "exited"}
             /\ menu' = "exited" => exit_status' = Some(1)]_vars

\* an unrecognized choice in the tutoring menu, with two records in the session
C27_Witness ==
    /\ handler = "invalid"
    /\ menu = "tutoring"
    /\ output = "Invalid choice."
    /\ Len(session_data) = 2
    /\ running
    /\ exit_status = None

(***************************************************************************)
(* Properties of the basic feedback (checked under SpecRemote)             *)
(***************************************************************************)
ProperPrefix(s, t) == Len(s) < Len(t) /\ SubSeq(t, 1, Len(s)) = s

\* the positions, up to the shorter length, at which two texts differ
DifferingPositions(s, t) ==
    {i \in DOMAIN s \cap DOMAIN t : s[i] # t[i]}

\* C28: without a client provide_feedback returns the prompt for input when
\* either text is empty, 'Excellent!' when the cleaned texts are equal ignoring
\* case, and otherwise the basic feedback by the number of positions, up to
\* the shorter length, at which the cleaned texts differ: none 'Great job!',
\* one to three 'Good work!', more 'Keep practicing!'; so 'Great job!' is
\* returned, for two texts that differ, exactly when one cleaned text is a
\* proper prefix of the other.
C28_BasicFeedbackCountsDifferingPositions ==
    FallbackMode("provide_feedback")
    => LET original_clean == clean_text(call.original_text)
           corrected_clean == clean_text(call.corrected_text)
           differing == Cardinality(DifferingPositions(original_clean, corrected_clean))
           feedback == call.ret.feedback
           both == call.original_text # <<>> /\ call.corrected_text # <<>>
       IN  /\ call.ret.chat_calls = 0
           /\ ~both
              => feedback = <<"Please provide both original and corrected text for feedback.">>
           /\ (both /\ lower(original_clean) = lower(corrected_clean))
              => feedback = <<"Excellent! Your text is grammatically correct and well-structured.">>
           /\ (both /\ lower(original_clean) # lower(corrected_clean))
              => /\ differing = 0
                    <=> feedback = <<"Great job! Your text is well-written.">>
                 /\ differing \in 1..3
                    <=> feedback = <<"Good work! Minor corrections were made to improve clarity and grammar.">>
                 /\ differing > 3
                    <=> feedback = <<"Keep practicing! Several improvements were made. Focus on grammar rules and sentence structure.">>
           /\ feedback = <<"Great job! Your text is well-written.">>
              <=> /\ both
                  /\ \/ ProperPrefix(original_clean, corrected_clean)
                     \/ ProperPrefix(corrected_clean, original_clean)

\* 'a' corrected to 'a b': the texts differ, no position of the shorter does
C28_Witness ==
    /\ FallbackMode("provide_feedback")
    /\ call.original_text = <<"a">>
    /\ call.corrected_text = <<"a", " ", "b">>
    /\ call.ret.feedback = <<"Great job! Your text is well-written.">>
    /\ call.ret.chat_calls = 0

====
